---- MODULE Spec2Model ----
(***************************************************************************)
(* Model of the run-orchestration core of the prokodo CLI:                 *)
(*   - ApiClient.request  (transport client, retry loop)                   *)
(*   - poll               (generic poll engine)                            *)
(*   - streamLogs         (log cursor streamer)                            *)
(*   - verify command     (run orchestrator)                               *)
(* Three specifications share the same actions:                            *)
(*   SpecClient  one call of ApiClient.request with any maxRetries         *)
(*   SpecPoll    one call of poll with an arbitrary probe                  *)
(*   Spec        one invocation of "prokodo verify"                        *)
(***************************************************************************)
EXTENDS Integers, Naturals, Sequences, FiniteSets, TLC

VARIABLES
    \* ---- clock (Date.now(), in ms since the start of the invocation)
    now,
    \* ---- ApiClient.request
    rpc,            \* position inside request(): idle, loop, send, inflight, returned
    reqEndpoint,    \* which path the current call addresses
    maxRetries,     \* this.maxRetries
    attempt,        \* the for-loop counter
    lastError,      \* the local lastError
    reqResult,      \* what request() returned or threw
    \* ---- history of the transport client (observations, not program state)
    reqHist,        \* what the current call has received so far
    attemptsMade,   \* fetch() calls made by the current call
    httpCount,      \* fetch() calls per endpoint during the whole invocation
    opCount,        \* client.get/client.post calls per endpoint
    \* ---- poll
    ppc,            \* position inside poll(): idle, check, probing, returned
    pollOpts,       \* timeoutMs, initialIntervalMs, maxIntervalMs, label
    deadline,       \* the local deadline
    interval,       \* the local interval
    pollAttempt,    \* the local attempt (number of fn() calls)
    pollResult,     \* what poll() returned or threw
    probePc,        \* fn(): idle, called, returned
    probeResult,    \* what fn() returned or threw
    pollHist,       \* history of the poll (observations, not program state)
    \* ---- the verify command
    vpc,            \* start, submit, poll, result, exited
    fpc,            \* inside the poll callback fn: idle, logs, status
    opts,           \* the command line and what the collaborators supplied
    body,           \* the submission payload
    timeoutMs,      \* the local timeoutMs
    apiKey,         \* the local key, handed to the ApiClient
    walk,           \* collectFiles: its include list, its result, its warnings
    logCursor,      \* the local logCursor ('' is 0)
    sentCursor,     \* the cursor of the log request in progress
    emitted,        \* seq of the lines passed to logLine, in order
    finalStatus,    \* the local finalStatus
    result,         \* the local result
    out,            \* what was written: JSON objects, human lines, message
    exitCode,       \* process exit code, -1 while running
    ending,         \* which exit was taken
    logHist,        \* history of streamLogs (observations, not program state)
    \* ---- the server and the network
    srvStatus,      \* state of the run
    faults,         \* transient failures injected so far
    outage          \* none, the kind of failure going on, over

reqVars == <<rpc, reqEndpoint, maxRetries, attempt, lastError, reqResult,
             reqHist, attemptsMade, httpCount, opCount>>

pollVars == <<ppc, pollOpts, deadline, interval, pollAttempt, pollResult,
              probePc, probeResult, pollHist>>

verifyVars == <<vpc, fpc, opts, body, timeoutMs, apiKey, walk, logCursor, sentCursor, emitted,
                finalStatus, result, out, exitCode, ending, logHist>>

srvVars == <<srvStatus, faults, outage>>

vars == <<now, reqVars, pollVars, verifyVars, srvVars>>

----------------------------------------------------------------------------
\* Bounds of the model

\* largest maxRetries explored by SpecClient
MaxRetriesBound == 5
\* duration of a fetch that is neither instantaneous nor aborted
SlowFetch == 500
\* duration of a slow probe in SpecPoll
LongProbe == 3000
\* number of fn() calls explored in one poll
MaxProbes == 3
\* the most probes of one poll whose every probe takes time
MaxProbesFair == 10
\* number of log lines the server appends to a run
MaxLog == 2
\* number of transient failures (no response, 429, 5xx, undecodable body)
\* injected into one invocation of verify
MaxFaults == 4

\* Program constants
DefaultMaxRetries == 3
RequestTimeout == 30000
BackoffBase == 1000
BackoffCap == 10000
RateLimitDefaultSec == 5
DefaultTimeoutSec == 300
PollInitialIntervalMs == 1000
PollMaxIntervalMs == 10000

Endpoints == {"runs", "logs", "status", "result"}

\* HTTP statuses the server may answer with
Statuses == {200, 204, 400, 401, 402, 403, 409, 429, 500, 503}

\* Time a fetch takes before the response headers arrive
FetchDurations == {0, SlowFetch}

----------------------------------------------------------------------------
\* Values

NoError == [kind |-> "none"]
NetworkError == [kind |-> "NetworkError"]
ApiRequestError(status) == [kind |-> "ApiRequestError", statusCode |-> status]
RetriesExhaustedError == [kind |-> "Error"]

BodyUndefined == [t |-> "undefined"]
BodyNull == [t |-> "null"]

Min(a, b) == IF a < b THEN a ELSE b

RECURSIVE Pow2(_)
Pow2(n) == IF n = 0 THEN 1 ELSE 2 * Pow2(n - 1)

\* backoffMs(attempt)
backoffMsUncapped(k) == BackoffBase * Pow2(k)
backoffMs(k) == Min(BackoffBase * Pow2(k), BackoffCap)

\* The Retry-After header: absent, or a string (a sequence of characters)
HeaderAbsent == <<"absent">>
DigitVal(c) == CASE c = "0" -> 0 [] c = "1" -> 1 [] c = "2" -> 2 [] c = "3" -> 3
                 [] c = "4" -> 4 [] c = "5" -> 5 [] c = "6" -> 6 [] c = "7" -> 7
                 [] c = "8" -> 8 [] c = "9" -> 9

\* Number(s) for a string of the header alphabet: NaN is modelled as -1
NaN == -1
RECURSIVE NumberOf(_)
NumberOf(s) ==
    IF s = <<>> THEN 0
    ELSE IF \E i \in 1..Len(s) : s[i] \notin {"0", "1", "2", "3", "4", "5", "6", "7", "8", "9"}
         THEN NaN
    ELSE IF Len(s) = 1 THEN DigitVal(s[1])
    ELSE 10 * NumberOf(SubSeq(s, 1, Len(s) - 1)) + DigitVal(s[Len(s)])

\* the wait after a 429: Number(header ?? '5'), finite ? x * 1000 : 5000
RetryAfterMs(h) ==
    LET retryAfter == IF h = HeaderAbsent THEN NumberOf(<<"5">>) ELSE NumberOf(h)
    IN IF retryAfter # NaN THEN retryAfter * 1000 ELSE RateLimitDefaultSec * 1000

RetryAfterHeaders == {HeaderAbsent, <<"0">>, <<"2">>, <<"a">>}

\* History of one call: the last response (status 0: no response arrived;
\* class "abort": the abort timer fired; at: when it arrived; hdr: its
\* Retry-After header), whether every response so far carried a 5xx status,
\* whether a 429 or 5xx response was received on any attempt, the time between
\* the last response and the fetch after it, whether every attempt so far
\* ended without a response, whether the abort timer fired on any attempt,
\* what response.json() gave for the last response it was called on, the
\* number of fetches issued and not settled (kept from one call to the next),
\* whether every response so far carried the status 429, and whether
\* response.json() threw on every response so far
NoHistory == [last |-> [class |-> "none", status |-> -1, at |-> -1, hdr |-> HeaderAbsent],
              only5xx |-> TRUE, sawRequestError |-> FALSE, gap |-> -1,
              onlyNet |-> TRUE, sawAbort |-> FALSE, decoded |-> [t |-> "none"],
              open |-> 0, only429 |-> TRUE, onlyUndecodable |-> TRUE]
ObserveLeavesAbortedOpen(h, resp) ==
    [h EXCEPT !.last = resp,
              !.only5xx = @ /\ resp.status >= 500,
              !.only429 = @ /\ resp.status = 429,
              !.onlyUndecodable = @ /\ resp.class = "badjson",
              !.sawRequestError = @ \/ resp.status = 429 \/ resp.status >= 500,
              !.onlyNet = @ /\ resp.status = 0,
              !.sawAbort = @ \/ resp.class = "abort",
              !.open = IF resp.class = "abort" THEN @ ELSE @ - 1]
Observe(h, resp) ==
    [h EXCEPT !.last = resp,
              !.only5xx = @ /\ resp.status >= 500,
              !.only429 = @ /\ resp.status = 429,
              !.onlyUndecodable = @ /\ resp.class = "badjson",
              !.sawRequestError = @ \/ resp.status = 429 \/ resp.status >= 500,
              !.onlyNet = @ /\ resp.status = 0,
              !.sawAbort = @ \/ resp.class = "abort",
              !.open = @ - 1]
Response(class, status, at, hdr) ==
    [class |-> class, status |-> status, at |-> at, hdr |-> hdr]

\* The branch of request() a response status takes, in the order of the code
StatusClassAbove400(s) ==
    IF s = 429 THEN "429"
    ELSE IF s > 400 /\ s < 500 THEN "4xx"
    ELSE IF s >= 500 THEN "5xx"
    ELSE IF s = 204 THEN "204"
    ELSE "ok"
StatusClass(s) ==
    IF s = 429 THEN "429"
    ELSE IF s >= 400 /\ s < 500 THEN "4xx"
    ELSE IF s >= 500 THEN "5xx"
    ELSE IF s = 204 THEN "204"
    ELSE "ok"

\* the for-loop condition of request(): attempt <= this.maxRetries
LoopContinuesOffByOne(a, n) == a < n
LoopContinues(a, n) == a <= n

----------------------------------------------------------------------------
\* ApiClient.request

\* client.get / client.post: enter request()
RequestBegin(ep) ==
    /\ rpc' = "loop"
    /\ reqEndpoint' = ep
    /\ attempt' = 0
    /\ lastError' = NoError
    /\ reqResult' = NoError
    /\ reqHist' = [NoHistory EXCEPT !.open = reqHist.open]
    /\ attemptsMade' = 0
    /\ opCount' = [opCount EXCEPT ![ep] = @ + 1]
    /\ UNCHANGED <<maxRetries, httpCount>>

\* top of the loop body: sleep the backoff before every attempt but the first
ReqLoopEnter ==
    /\ rpc = "loop"
    /\ LoopContinues(attempt, maxRetries)
    /\ now' = IF attempt > 0 THEN now + backoffMs(attempt - 1) ELSE now
    /\ rpc' = "send"
    /\ UNCHANGED <<reqEndpoint, maxRetries, attempt, lastError, reqResult,
                   reqHist, attemptsMade, httpCount, opCount>>

\* fetch(url, ...) is issued
ReqSend ==
    /\ rpc = "send"
    /\ rpc' = "inflight"
    /\ attemptsMade' = attemptsMade + 1
    /\ httpCount' = [httpCount EXCEPT ![reqEndpoint] = @ + 1]
    /\ reqHist' = [reqHist EXCEPT !.gap = IF reqHist.last.class = "none" THEN -1
                                         ELSE now - reqHist.last.at,
                                  !.open = @ + 1]
    /\ UNCHANGED <<now, reqEndpoint, maxRetries, attempt, lastError, reqResult,
                   opCount>>

\* fetch rejects: the server cannot be reached, or the abort timer fired
ReqNetworkFailureNotRetried(d) ==
    /\ rpc = "inflight"
    /\ now' = now + d
    /\ reqResult' = NetworkError
    /\ rpc' = "returned"
    /\ reqHist' = Observe(reqHist, Response(IF d = RequestTimeout THEN "abort" ELSE "net",
                                          0, now + d, HeaderAbsent))
    /\ UNCHANGED <<reqEndpoint, maxRetries, attempt, lastError, attemptsMade,
                   httpCount, opCount>>
ReqNetworkFailure(d) ==
    /\ rpc = "inflight"
    /\ now' = now + d
    /\ lastError' = NetworkError
    /\ attempt' = attempt + 1
    /\ rpc' = "loop"
    /\ reqHist' = Observe(reqHist, Response(IF d = RequestTimeout THEN "abort" ELSE "net",
                                          0, now + d, HeaderAbsent))
    /\ UNCHANGED <<reqEndpoint, maxRetries, reqResult, attemptsMade, httpCount, opCount>>

\* response.status === 429
ReqRateLimitedOutsideBudget(d, s, h) ==
    /\ rpc = "inflight"
    /\ StatusClass(s) = "429"
    /\ now' = now + d + RetryAfterMs(h)
    /\ lastError' = ApiRequestError(429)
    /\ rpc' = "loop"
    /\ reqHist' = Observe(reqHist, Response("429", s, now + d, h))
    /\ UNCHANGED <<reqEndpoint, maxRetries, attempt, reqResult, attemptsMade, httpCount,
                   opCount>>
ReqRateLimited(d, s, h) ==
    /\ rpc = "inflight"
    /\ StatusClass(s) = "429"
    /\ now' = now + d + RetryAfterMs(h)
    /\ lastError' = ApiRequestError(429)
    /\ attempt' = attempt + 1
    /\ rpc' = "loop"
    /\ reqHist' = Observe(reqHist, Response("429", s, now + d, h))
    /\ UNCHANGED <<reqEndpoint, maxRetries, reqResult, attemptsMade, httpCount, opCount>>

\* 4xx other than 429: throw, the catch block rethrows an ApiRequestError
ReqClientErrorRetried(d, s) ==
    /\ rpc = "inflight"
    /\ StatusClass(s) = "4xx"
    /\ now' = now + d
    /\ lastError' = ApiRequestError(s)
    /\ attempt' = attempt + 1
    /\ rpc' = "loop"
    /\ reqHist' = Observe(reqHist, Response("4xx", s, now + d, HeaderAbsent))
    /\ UNCHANGED <<reqEndpoint, maxRetries, reqResult, attemptsMade, httpCount, opCount>>
ReqClientError(d, s) ==
    /\ rpc = "inflight"
    /\ StatusClass(s) = "4xx"
    /\ now' = now + d
    /\ reqResult' = ApiRequestError(s)
    /\ rpc' = "returned"
    /\ reqHist' = Observe(reqHist, Response("4xx", s, now + d, HeaderAbsent))
    /\ UNCHANGED <<reqEndpoint, maxRetries, attempt, lastError, attemptsMade,
                   httpCount, opCount>>

\* 5xx: remember the error and continue
ReqServerError(d, s) ==
    /\ rpc = "inflight"
    /\ StatusClass(s) = "5xx"
    /\ now' = now + d
    /\ lastError' = ApiRequestError(s)
    /\ attempt' = attempt + 1
    /\ rpc' = "loop"
    /\ reqHist' = Observe(reqHist, Response("5xx", s, now + d, HeaderAbsent))
    /\ UNCHANGED <<reqEndpoint, maxRetries, reqResult, attemptsMade, httpCount, opCount>>

\* 204: return undefined
ReqNoContent(d, s) ==
    /\ rpc = "inflight"
    /\ StatusClass(s) = "204"
    /\ now' = now + d
    /\ reqResult' = [kind |-> "value", body |-> BodyUndefined]
    /\ rpc' = "returned"
    /\ reqHist' = Observe(reqHist, Response("204", s, now + d, HeaderAbsent))
    /\ UNCHANGED <<reqEndpoint, maxRetries, attempt, lastError, attemptsMade,
                   httpCount, opCount>>

\* any other status: return response.json()
ReqSuccessUnlessFailedBefore(d, s, decoded) ==
    /\ rpc = "inflight"
    /\ StatusClass(s) = "ok"
    /\ now' = now + d
    /\ reqResult' = IF lastError = NoError THEN [kind |-> "value", body |-> decoded]
                    ELSE lastError
    /\ rpc' = "returned"
    /\ reqHist' = [Observe(reqHist, Response("ok", s, now + d, HeaderAbsent))
                      EXCEPT !.decoded = decoded]
    /\ UNCHANGED <<reqEndpoint, maxRetries, attempt, lastError, attemptsMade,
                   httpCount, opCount>>
ReqSuccess(d, s, decoded) ==
    /\ rpc = "inflight"
    /\ StatusClass(s) = "ok"
    /\ now' = now + d
    /\ reqResult' = [kind |-> "value", body |-> decoded]
    /\ rpc' = "returned"
    /\ reqHist' = [Observe(reqHist, Response("ok", s, now + d, HeaderAbsent))
                      EXCEPT !.decoded = decoded]
    /\ UNCHANGED <<reqEndpoint, maxRetries, attempt, lastError, attemptsMade,
                   httpCount, opCount>>

\* response.json() throws: caught as a non-ApiRequestError, retried
ReqUndecodableRethrown(d, s) ==
    /\ rpc = "inflight"
    /\ StatusClass(s) = "ok"
    /\ now' = now + d
    /\ reqResult' = [kind |-> "SyntaxError"]
    /\ rpc' = "returned"
    /\ reqHist' = Observe(reqHist, Response("badjson", s, now + d, HeaderAbsent))
    /\ UNCHANGED <<reqEndpoint, maxRetries, attempt, lastError, attemptsMade,
                   httpCount, opCount>>
ReqUndecodable(d, s) ==
    /\ rpc = "inflight"
    /\ StatusClass(s) = "ok"
    /\ now' = now + d
    /\ lastError' = [kind |-> "SyntaxError"]
    /\ attempt' = attempt + 1
    /\ rpc' = "loop"
    /\ reqHist' = Observe(reqHist, Response("badjson", s, now + d, HeaderAbsent))
    /\ UNCHANGED <<reqEndpoint, maxRetries, reqResult, attemptsMade, httpCount, opCount>>

\* after the loop: throw lastError if it is an ApiRequestError, else a generic Error
ExhaustedOutcomeAlwaysGeneric(err) == RetriesExhaustedError
ExhaustedOutcome(err) ==
    IF err.kind = "ApiRequestError" THEN err ELSE RetriesExhaustedError

ReqExhausted ==
    /\ rpc = "loop"
    /\ ~LoopContinues(attempt, maxRetries)
    /\ reqResult' = ExhaustedOutcome(lastError)
    /\ rpc' = "returned"
    /\ UNCHANGED <<now, reqEndpoint, maxRetries, attempt, lastError, reqHist,
                   attemptsMade, httpCount, opCount>>

\* one step of request() that does not depend on what the endpoint serves
ReqLoopStep == ReqLoopEnter /\ UNCHANGED <<pollVars, verifyVars, srvVars>>
ReqSendStep == ReqSend /\ UNCHANGED <<pollVars, verifyVars, srvVars>>
ReqNetworkFailureStep ==
    \E d \in FetchDurations \cup {RequestTimeout} :
        ReqNetworkFailure(d) /\ UNCHANGED <<pollVars, verifyVars, srvVars>>
ReqRateLimitedStep ==
    \E d \in FetchDurations, s \in Statuses, h \in RetryAfterHeaders :
        ReqRateLimited(d, s, h) /\ UNCHANGED <<pollVars, verifyVars, srvVars>>
ReqClientErrorStep ==
    \E d \in FetchDurations, s \in Statuses : ReqClientError(d, s) /\ UNCHANGED <<pollVars, verifyVars, srvVars>>
ReqServerErrorStep ==
    \E d \in FetchDurations, s \in Statuses : ReqServerError(d, s) /\ UNCHANGED <<pollVars, verifyVars, srvVars>>
ReqNoContentStep ==
    \E d \in FetchDurations, s \in Statuses : ReqNoContent(d, s) /\ UNCHANGED <<pollVars, verifyVars, srvVars>>
ReqUndecodableStep ==
    \E d \in FetchDurations, s \in Statuses : ReqUndecodable(d, s) /\ UNCHANGED <<pollVars, verifyVars, srvVars>>
ReqExhaustedStep == ReqExhausted /\ UNCHANGED <<pollVars, verifyVars, srvVars>>

----------------------------------------------------------------------------
\* poll

Terminal == {"success", "failed", "timeout", "rejected"}
RunStatuses == {"queued", "running"} \cup Terminal
StatusBody(st, rc) == [t |-> "status", status |-> st, reasonCode |-> rc]

TypeError == [kind |-> "TypeError"]
PollTimeoutError(label, ms) ==
    [kind |-> "PollTimeoutError", label |-> label, timeoutMs |-> ms]

\* the status is one of the four that end the poll
TerminalStatusWithoutTimeout(st) == st \in {"success", "failed", "rejected"}
TerminalStatus(st) == st \in Terminal

\* the isDone predicate verify passes to poll; reading .status of undefined throws
isDoneOnceStarted(s) == s.t = "status" /\ s.status # "queued"
isDone(s) == s.t = "status" /\ TerminalStatus(s.status)

\* value !== null && isDone(value): isDone is called on every value but null;
\* s.status of undefined or null throws a TypeError
isDoneCalledOnNull(value) == TRUE
isDoneCalled(value) == value # BodyNull
isDoneThrows(s) == isDoneCalled(s) /\ s \in {BodyUndefined, BodyNull}

\* value !== null && isDone(value)
ShouldReturnBeforeDeadline(value, remaining) ==
    value # BodyNull /\ isDone(value) /\ remaining > 0
ShouldReturn(value, remaining) == value # BodyNull /\ isDone(value)

\* while (Date.now() < deadline)
LoopGuardInclusive(t, dl) == t <= dl
LoopGuard(t, dl) == t < dl

\* const wait = Math.min(interval, remaining)
SleepLengthWholeInterval(iv, remaining) == iv
SleepLength(iv, remaining) == Min(iv, remaining)

\* interval = Math.min(interval * 2, maxIntervalMs)
NextInterval(iv, maxMs) == Min(iv * 2, maxMs)

\* an error thrown by fn() leaves poll through the await, unchanged
ProbeThrowOutcomeAsTimeout(e, o) == PollTimeoutError(o.label, o.timeoutMs)
ProbeThrowOutcome(e, o) == [kind |-> "throw", error |-> e]

NoOpts == [type |-> "absent"]
NoBody == [mode |-> "none"]
\* resolveApiKey has not returned a key
NoKey == <<"no key">>
NoLogHistory == [calls |-> 0, last |-> "none", before |-> 0, emittedBefore |-> 0]
NoOutput == [json |-> 0, human |-> 0, msg |-> "none", reason |-> "none"]

NoMark == [set |-> FALSE, attempt |-> 0, at |-> 0, what |-> NoError]
NoPollHistory ==
    [lastProbeAt |-> -1, firstDone |-> NoMark, firstThrow |-> NoMark, sleeps |-> 0,
     sleptAt |-> -1, lastSleep |-> -1]

\* what the poll has seen its probe do: the first done value and the first throw
\* (and what it did itself: the number of sleeps, the start and the length of
\* the last one)
ObserveProbe(h, r) ==
    [h EXCEPT
       !.firstDone =
           IF /\ ~h.firstDone.set
              /\ r.kind = "value"
              /\ r.body \notin {BodyNull, BodyUndefined}
              /\ isDone(r.body)
           THEN [set |-> TRUE, attempt |-> pollAttempt, at |-> now, what |-> r.body]
           ELSE @,
       !.firstThrow =
           IF ~h.firstThrow.set /\ r.kind = "throw"
           THEN [set |-> TRUE, attempt |-> pollAttempt, at |-> now, what |-> r.error]
           ELSE @]

\* poll(opts): the statements before the loop
PollBegin(o) ==
    /\ ppc' = "check"
    /\ pollOpts' = o
    /\ deadline' = now + o.timeoutMs
    /\ interval' = o.initialIntervalMs
    /\ pollAttempt' = 0
    /\ pollResult' = NoError
    /\ probePc' = "idle"
    /\ probeResult' = NoError
    /\ pollHist' = NoPollHistory

\* the loop condition holds: call fn() (at most maxProbes times)
PollInvokeUpTo(maxProbes) ==
    /\ ppc = "check"
    /\ LoopGuard(now, deadline)
    /\ pollAttempt < maxProbes
    /\ pollAttempt' = pollAttempt + 1
    /\ probePc' = "called"
    /\ ppc' = "probing"
    /\ pollHist' = [pollHist EXCEPT !.lastProbeAt = now]
    /\ UNCHANGED <<now, pollOpts, deadline, interval, pollResult, probeResult>>
PollInvoke == PollInvokeUpTo(MaxProbes)

\* the loop condition fails: throw PollTimeoutError
PollDeadline ==
    /\ ppc = "check"
    /\ ~LoopGuard(now, deadline)
    /\ pollResult' = PollTimeoutError(pollOpts.label, pollOpts.timeoutMs)
    /\ ppc' = "returned"
    /\ UNCHANGED <<now, pollOpts, deadline, interval, pollAttempt, probePc,
                   probeResult, pollHist>>

\* fn() threw
PollProbeThrew ==
    /\ ppc = "probing" /\ probePc = "returned"
    /\ probeResult.kind = "throw"
    /\ pollResult' = ProbeThrowOutcome(probeResult.error, pollOpts)
    /\ ppc' = "returned"
    /\ probePc' = "idle"
    /\ pollHist' = ObserveProbe(pollHist, probeResult)
    /\ UNCHANGED <<now, pollOpts, deadline, interval, pollAttempt, probeResult>>

\* fn() returned undefined: isDone(undefined) throws out of poll
PollIsDoneThrew ==
    /\ ppc = "probing" /\ probePc = "returned"
    /\ probeResult.kind = "value"
    /\ isDoneThrows(probeResult.body)
    /\ pollResult' = [kind |-> "throw", error |-> TypeError]
    /\ ppc' = "returned"
    /\ probePc' = "idle"
    /\ pollHist' = ObserveProbe(pollHist, probeResult)
    /\ UNCHANGED <<now, pollOpts, deadline, interval, pollAttempt, probeResult>>

\* fn() returned a done value: return it
PollDoneUnlessLate ==
    /\ ppc = "probing" /\ probePc = "returned"
    /\ probeResult.kind = "value"
    /\ ~isDoneThrows(probeResult.body)
    /\ ShouldReturn(probeResult.body, deadline - now)
    /\ pollResult' = IF deadline - now > 0
                     THEN [kind |-> "value", body |-> probeResult.body]
                     ELSE PollTimeoutError(pollOpts.label, pollOpts.timeoutMs)
    /\ ppc' = "returned"
    /\ probePc' = "idle"
    /\ pollHist' = ObserveProbe(pollHist, probeResult)
    /\ UNCHANGED <<now, pollOpts, deadline, interval, pollAttempt, probeResult>>
PollDone ==
    /\ ppc = "probing" /\ probePc = "returned"
    /\ probeResult.kind = "value"
    /\ ~isDoneThrows(probeResult.body)
    /\ ShouldReturn(probeResult.body, deadline - now)
    /\ pollResult' = [kind |-> "value", body |-> probeResult.body]
    /\ ppc' = "returned"
    /\ probePc' = "idle"
    /\ pollHist' = ObserveProbe(pollHist, probeResult)
    /\ UNCHANGED <<now, pollOpts, deadline, interval, pollAttempt, probeResult>>

\* not done and no time left: break, then throw PollTimeoutError
PollBreak ==
    /\ ppc = "probing" /\ probePc = "returned"
    /\ probeResult.kind = "value"
    /\ ~isDoneThrows(probeResult.body)
    /\ ~ShouldReturn(probeResult.body, deadline - now)
    /\ deadline - now <= 0
    /\ pollResult' = PollTimeoutError(pollOpts.label, pollOpts.timeoutMs)
    /\ ppc' = "returned"
    /\ probePc' = "idle"
    /\ pollHist' = ObserveProbe(pollHist, probeResult)
    /\ UNCHANGED <<now, pollOpts, deadline, interval, pollAttempt, probeResult>>

\* not done: sleep min(interval, remaining), double the interval up to the cap
PollSleep ==
    /\ ppc = "probing" /\ probePc = "returned"
    /\ probeResult.kind = "value"
    /\ ~isDoneThrows(probeResult.body)
    /\ ~ShouldReturn(probeResult.body, deadline - now)
    /\ deadline - now > 0
    /\ now' = now + SleepLength(interval, deadline - now)
    /\ interval' = NextInterval(interval, pollOpts.maxIntervalMs)
    /\ ppc' = "check"
    /\ probePc' = "idle"
    /\ pollHist' = [ObserveProbe(pollHist, probeResult) EXCEPT
                       !.sleeps = @ + 1, !.sleptAt = now,
                       !.lastSleep = SleepLength(interval, deadline - now)]
    /\ UNCHANGED <<pollOpts, deadline, pollAttempt, pollResult, probeResult>>

----------------------------------------------------------------------------
\* Initial values of each layer

InitReq ==
    /\ rpc = "idle"
    /\ reqEndpoint = "runs"
    /\ attempt = 0
    /\ lastError = NoError
    /\ reqResult = NoError
    /\ reqHist = NoHistory
    /\ attemptsMade = 0
    /\ httpCount = [e \in Endpoints |-> 0]
    /\ opCount = [e \in Endpoints |-> 0]

InitPoll ==
    /\ ppc = "idle"
    /\ pollOpts = [timeoutMs |-> 300000, initialIntervalMs |-> 1000,
                   maxIntervalMs |-> 10000, label |-> "poll"]
    /\ deadline = 0
    /\ interval = 0
    /\ pollAttempt = 0
    /\ pollResult = NoError
    /\ probePc = "idle"
    /\ probeResult = NoError
    /\ pollHist = NoPollHistory

InitVerify ==
    /\ vpc = "start"
    /\ fpc = "idle"
    /\ opts = NoOpts
    /\ body = NoBody
    /\ timeoutMs = 0
    /\ apiKey = NoKey
    /\ walk = [include |-> <<>>, files |-> <<>>, warned |-> 0]
    /\ logCursor = 0
    /\ sentCursor = 0
    /\ emitted = <<>>
    /\ finalStatus = NoError
    /\ result = NoError
    /\ out = NoOutput
    /\ exitCode = -1
    /\ ending = "none"
    /\ logHist = NoLogHistory

InitServer ==
    /\ srvStatus = StatusBody("queued", "absent")
    /\ faults = 0
    /\ outage = "none"

----------------------------------------------------------------------------
\* SpecClient: one call of ApiClient.request

InitClient ==
    /\ now = 0
    /\ maxRetries \in 0..MaxRetriesBound
    /\ InitReq
    /\ InitPoll
    /\ InitVerify
    /\ InitServer

ClientCall ==
    /\ rpc = "idle"
    /\ \E ep \in Endpoints : RequestBegin(ep)
    /\ UNCHANGED <<now, pollVars, verifyVars, srvVars>>

ClientSuccess ==
    \E d \in FetchDurations, s \in Statuses, decoded \in {[t |-> "json"], BodyNull} :
        ReqSuccess(d, s, decoded) /\ UNCHANGED <<pollVars, verifyVars, srvVars>>

NextClient ==
    \/ ClientCall
    \/ ReqLoopStep
    \/ ReqSendStep
    \/ ReqNetworkFailureStep
    \/ ReqRateLimitedStep
    \/ ReqClientErrorStep
    \/ ReqServerErrorStep
    \/ ReqNoContentStep
    \/ ReqUndecodableStep
    \/ ClientSuccess
    \/ ReqExhaustedStep

SpecClient == InitClient /\ [][NextClient]_vars

----------------------------------------------------------------------------
\* SpecPoll: one call of poll with an arbitrary probe

PollOptChoices ==
    [timeoutMs : {2000, 5000}, initialIntervalMs : {0, 1000, 3000},
     maxIntervalMs : {1000, 10000}, label : {"poll"}]

ProbeValues == {BodyNull, BodyUndefined} \cup {StatusBody(st, "none") : st \in RunStatuses}
ProbeDurations == {0, SlowFetch, LongProbe}

InitPollOnly ==
    /\ now = 0
    /\ maxRetries = DefaultMaxRetries
    /\ InitReq
    /\ InitPoll
    /\ InitVerify
    /\ InitServer

PollCall ==
    /\ ppc = "idle"
    /\ \E o \in PollOptChoices : PollBegin(o)
    /\ UNCHANGED <<now, reqVars, verifyVars, srvVars>>

\* the probe returns a value after d ms
ProbeReturns ==
    /\ probePc = "called"
    /\ \E d \in ProbeDurations, v \in ProbeValues :
         /\ now' = now + d
         /\ probeResult' = [kind |-> "value", body |-> v]
    /\ probePc' = "returned"
    /\ UNCHANGED <<ppc, pollOpts, deadline, interval, pollAttempt, pollResult, pollHist>>
    /\ UNCHANGED <<reqVars, verifyVars, srvVars>>

\* the probe throws after d ms
ProbeThrows ==
    /\ probePc = "called"
    /\ \E d \in ProbeDurations, e \in {NetworkError, ApiRequestError(401)} :
         /\ now' = now + d
         /\ probeResult' = [kind |-> "throw", error |-> e]
    /\ probePc' = "returned"
    /\ UNCHANGED <<ppc, pollOpts, deadline, interval, pollAttempt, pollResult, pollHist>>
    /\ UNCHANGED <<reqVars, verifyVars, srvVars>>

NextPoll ==
    \/ PollCall
    \/ ProbeReturns
    \/ ProbeThrows
    \/ PollInvoke /\ UNCHANGED <<reqVars, verifyVars, srvVars>>
    \/ PollDeadline /\ UNCHANGED <<reqVars, verifyVars, srvVars>>
    \/ PollProbeThrew /\ UNCHANGED <<reqVars, verifyVars, srvVars>>
    \/ PollIsDoneThrew /\ UNCHANGED <<reqVars, verifyVars, srvVars>>
    \/ PollDone /\ UNCHANGED <<reqVars, verifyVars, srvVars>>
    \/ PollBreak /\ UNCHANGED <<reqVars, verifyVars, srvVars>>
    \/ PollSleep /\ UNCHANGED <<reqVars, verifyVars, srvVars>>

SpecPoll == InitPollOnly /\ [][NextPoll]_vars

\* SpecPollFair: one call of poll whose probe settles and whose clock advances
\* while the probe runs; poll is one sequential async function, so a step that
\* can be taken is taken
ClockStandsStill == TRUE
ClockAdvances == now' > now

NextPollFair ==
    \/ PollCall
    \/ ProbeReturns /\ ClockAdvances
    \/ ProbeThrows /\ ClockAdvances
    \/ PollInvokeUpTo(MaxProbesFair) /\ UNCHANGED <<reqVars, verifyVars, srvVars>>
    \/ PollDeadline /\ UNCHANGED <<reqVars, verifyVars, srvVars>>
    \/ PollProbeThrew /\ UNCHANGED <<reqVars, verifyVars, srvVars>>
    \/ PollIsDoneThrew /\ UNCHANGED <<reqVars, verifyVars, srvVars>>
    \/ PollDone /\ UNCHANGED <<reqVars, verifyVars, srvVars>>
    \/ PollBreak /\ UNCHANGED <<reqVars, verifyVars, srvVars>>
    \/ PollSleep /\ UNCHANGED <<reqVars, verifyVars, srvVars>>

SpecPollFair == InitPollOnly /\ [][NextPollFair]_vars /\ WF_vars(NextPollFair)

----------------------------------------------------------------------------
\* The verify command: inputs and validation

\* an absent option or positional argument; present ones are character strings
Absent == <<"absent">>

StartsWith(str, c) == Len(str) >= 1 /\ str[1] = c
Includes(str, c) == \E i \in 1..Len(str) : str[i] = c
EndsWith(str, suffix) ==
    /\ Len(str) >= Len(suffix)
    /\ SubSeq(str, Len(str) - Len(suffix) + 1, Len(str)) = suffix

isNpmPackageArg(arg) ==
    IF StartsWith(arg, "@") THEN TRUE
    ELSE IF StartsWith(arg, ".") \/ StartsWith(arg, "/") \/ StartsWith(arg, "\\") THEN FALSE
    ELSE IF \/ EndsWith(arg, <<".", "j", "s", "o", "n">>)
            \/ EndsWith(arg, <<".", "j", "s">>)
            \/ EndsWith(arg, <<".", "t", "s">>) THEN FALSE
    ELSE IF Includes(arg, "/") \/ Includes(arg, "\\") THEN FALSE
    ELSE TRUE

\* String.prototype.trim on a character string
RECURSIVE TrimStart(_)
TrimStart(str) == IF str # <<>> /\ Head(str) = " " THEN TrimStart(Tail(str)) ELSE str
RECURSIVE TrimEnd(_)
TrimEnd(str) ==
    IF str # <<>> /\ str[Len(str)] = " " THEN TrimEnd(SubSeq(str, 1, Len(str) - 1))
    ELSE str
TrimNothing(str) == str
Trim(str) == TrimEnd(TrimStart(str))

\* a string in a condition: undefined and '' are falsy
Truthy(str) == str # Absent /\ str # <<>>

\* resolveApiKey(cliFlag): the flag, then PROKODO_API_KEY, then the credentials
\* file; NoKey where it ends in fatal(..., 2)
resolveApiKey(keys) ==
    IF Truthy(keys.flag) /\ Trim(keys.flag) # <<>> THEN Trim(keys.flag)
    ELSE IF Truthy(keys.env) /\ Trim(keys.env) # <<>> THEN Trim(keys.env)
    ELSE IF Truthy(keys.stored) /\ Trim(keys.stored) # <<>> THEN Trim(keys.stored)
    ELSE NoKey

\* what one credential source can hold: nothing, '', blanks, a key, a padded key
KeyStrings(c) == {Absent, <<>>, <<" ">>, <<c>>, <<" ", c, " ">>}
KeyChoices ==
    {[flag |-> Absent, env |-> Absent, stored |-> Absent],
     [flag |-> <<" ">>, env |-> <<" ", "e", " ">>, stored |-> <<"s">>]}

\* what the command can be given: flags, the positional argument, and what
\* the config file, the file walk and the credential sources supply
FileArgs == {Absent, <<"@", "s", "/", "n">>, <<"w", ".", "j", "s", "o", "n">>}
FileArgsWide ==
    FileArgs \cup {<<>>, <<"n">>, <<".", "n">>, <<"/", "n">>, <<"a", "/", "n">>,
                   <<"a", "\\", "n">>, <<"n", ".", "t", "s">>, <<"n", ".", "j", "s">>,
                   <<"@", "n", ".", "j", "s">>}

OptUniverse(keys, logs, fileArgs) ==
    [type : {"absent", "n8n-node", "n8n-workflow", "x"},
     file : fileArgs,
     timeout : {Absent, <<"3">>, <<"0">>, <<"a">>},
     logs : logs,
     json : BOOLEAN,
     cfgTimeout : {<<>>, <<0>>},
     files : {0, 1},
     keys : keys]

OptChoices ==
    {o \in OptUniverse(KeyChoices, BOOLEAN, FileArgs) :
        \* the config file and the file walk are not consulted in package mode,
        \* and the config timeout is not consulted under --timeout
        /\ Truthy(o.file) => (o.cfgTimeout = <<>> /\ o.files = 1)
        /\ o.timeout # Absent => o.cfgTimeout = <<>>
        \* in local mode --type n8n-node resolves to the same context as no
        \* --type: it is explored for package mode only
        /\ ~Truthy(o.file) => o.type # "n8n-node"}

\* every combination of inputs, whatever the working directory holds
OptChoicesWide ==
    OptUniverse([flag : KeyStrings("f"), env : KeyStrings("e"), stored : KeyStrings("s")],
                {TRUE}, FileArgsWide)

\* rawTimeout is finite and positive
ValidTimeout(t) == NumberOf(t) # NaN /\ NumberOf(t) > 0

\* ctx.timeoutMs of resolveRunContext
CtxTimeoutMs(o) ==
    IF o.timeout # Absent THEN NumberOf(o.timeout) * 1000
    ELSE IF o.cfgTimeout # <<>> THEN o.cfgTimeout[1] * 1000
    ELSE DefaultTimeoutSec * 1000

\* the first fatal(..., 2) the command runs into, "none" if there is none
UsageErrorWithoutKeyCheck(o) ==
    IF o.type # "absent" /\ o.type # "n8n-node" THEN "bad_type"
    ELSE IF Truthy(o.file) /\ ~isNpmPackageArg(o.file) THEN "file_path"
    ELSE IF Truthy(o.file) /\ o.type = "absent" THEN "type_required"
    ELSE IF o.timeout # Absent /\ ~ValidTimeout(o.timeout) THEN "bad_timeout"
    ELSE IF ~Truthy(o.file) /\ CtxTimeoutMs(o) <= 0 THEN "bad_timeout"
    ELSE IF ~Truthy(o.file) /\ o.files = 0 THEN "no_files"
    ELSE "none"
UsageError(o) ==
    IF o.type # "absent" /\ o.type # "n8n-node" THEN "bad_type"
    ELSE IF Truthy(o.file) /\ ~isNpmPackageArg(o.file) THEN "file_path"
    ELSE IF Truthy(o.file) /\ o.type = "absent" THEN "type_required"
    ELSE IF o.timeout # Absent /\ ~ValidTimeout(o.timeout) THEN "bad_timeout"
    ELSE IF ~Truthy(o.file) /\ CtxTimeoutMs(o) <= 0 THEN "bad_timeout"
    ELSE IF ~Truthy(o.file) /\ o.files = 0 THEN "no_files"
    ELSE IF resolveApiKey(o.keys) = NoKey THEN "no_key"
    ELSE "none"

\* the submission payload: package mode or local mode
BuildBodyKeepsFiles(o) ==
    IF Truthy(o.file)
    THEN [mode |-> "package", projectType |-> o.type, packageRef |-> o.file,
          files |-> o.files]
    ELSE [mode |-> "local", projectType |-> "n8n-node", packageRef |-> Absent,
          files |-> o.files]
BuildBody(o) ==
    IF Truthy(o.file)
    THEN [mode |-> "package", projectType |-> o.type, packageRef |-> o.file,
          files |-> 0]
    ELSE [mode |-> "local", projectType |-> "n8n-node", packageRef |-> Absent,
          files |-> o.files]

BuildTimeoutMs(o) ==
    IF Truthy(o.file)
    THEN IF o.timeout # Absent THEN NumberOf(o.timeout) * 1000
         ELSE DefaultTimeoutSec * 1000
    ELSE CtxTimeoutMs(o)

\* process.exit(code) after the given output
ExitWith(code, how, json, human, msg, reason) ==
    /\ vpc' = "exited"
    /\ exitCode' = code
    /\ ending' = how
    /\ out' = [json |-> out.json + json, human |-> out.human + human, msg |-> msg,
               reason |-> reason]
Exit(code, how, json, human, msg) == ExitWith(code, how, json, human, msg, "none")

\* handleApiError: the message written for an error
ApiErrorMessageAlwaysApi(err) == "api_error"
ApiErrorMessage(err) ==
    IF err.kind = "ApiRequestError"
    THEN IF err.statusCode = 401 \/ err.statusCode = 403 THEN "auth_failed"
         ELSE IF err.statusCode = 402 THEN "insufficient_credits"
         ELSE IF err.statusCode = 409 THEN "in_progress"
         ELSE IF err.statusCode = 503 THEN "unavailable"
         ELSE "api_error"
    ELSE "network_error"

\* handleApiError(err, jsonMode): one JSON object or human lines, then exit 1
HandleApiError(err) ==
    Exit(1, IF err.kind = "ApiRequestError" THEN "request_error" ELSE "network_error",
         IF opts.json THEN 1 ELSE 0, IF opts.json THEN 0 ELSE 1, ApiErrorMessage(err))

\* an exception nothing in the command catches: main().catch writes it, exit 1
Crash == Exit(1, "crash", 0, 1, "unexpected_error")

\* steps 1 to 6 end in fatal(..., 2)
VerifyUsageErrorFrom(choices) ==
    /\ vpc = "start"
    /\ \E o \in choices :
         /\ UsageError(o) # "none"
         /\ opts' = o
         /\ vpc' = "exited"
         /\ exitCode' = 2
         /\ ending' = "usage"
         /\ out' = [json |-> 0, human |-> 1, msg |-> UsageError(o), reason |-> "none"]
    /\ UNCHANGED <<fpc, body, timeoutMs, apiKey, walk, logCursor, sentCursor, emitted,
                   finalStatus, result, logHist>>
    /\ UNCHANGED <<now, reqVars, pollVars, srvVars>>

\* steps 1 to 7: the payload is built and client.post is called
VerifySubmitFrom(choices) ==
    /\ vpc = "start"
    /\ \E o \in choices :
         /\ UsageError(o) = "none"
         /\ opts' = o
         /\ body' = BuildBody(o)
         /\ timeoutMs' = BuildTimeoutMs(o)
         /\ apiKey' = resolveApiKey(o.keys)
         /\ out' = [out EXCEPT !.human = IF ~o.json /\ Truthy(o.file) THEN 1 ELSE 0]
    /\ maxRetries' = DefaultMaxRetries
    /\ RequestBegin("runs")
    /\ vpc' = "submit"
    /\ UNCHANGED <<fpc, logCursor, sentCursor, emitted, finalStatus, result,
                   exitCode, ending, logHist, walk>>
    /\ UNCHANGED <<now, pollVars, srvVars>>

VerifyUsageError == VerifyUsageErrorFrom(OptChoices)
VerifySubmit == VerifySubmitFrom(OptChoices)

\* the same two steps over every combination of inputs
VerifyUsageErrorWide == VerifyUsageErrorFrom(OptChoicesWide)
VerifySubmitWide == VerifySubmitFrom(OptChoicesWide)

\* client.post threw
VerifySubmitFailed ==
    /\ vpc = "submit" /\ rpc = "returned"
    /\ reqResult.kind # "value"
    /\ HandleApiError(reqResult)
    /\ rpc' = "idle"
    /\ UNCHANGED <<fpc, opts, body, timeoutMs, apiKey, walk, logCursor, sentCursor, emitted,
                   finalStatus, result, logHist>>
    /\ UNCHANGED <<now, reqEndpoint, maxRetries, attempt, lastError, reqResult,
                   reqHist, attemptsMade, httpCount, opCount>>
    /\ UNCHANGED <<pollVars, srvVars>>

\* client.post returned no object: run.runId throws
VerifySubmitCrash ==
    /\ vpc = "submit" /\ rpc = "returned"
    /\ reqResult.kind = "value"
    /\ reqResult.body \in {BodyNull, BodyUndefined}
    /\ Crash
    /\ rpc' = "idle"
    /\ UNCHANGED <<fpc, opts, body, timeoutMs, apiKey, walk, logCursor, sentCursor, emitted,
                   finalStatus, result, logHist>>
    /\ UNCHANGED <<now, reqEndpoint, maxRetries, attempt, lastError, reqResult,
                   reqHist, attemptsMade, httpCount, opCount>>
    /\ UNCHANGED <<pollVars, srvVars>>

\* the run was started: logCursor = '' and poll(...) is entered
VerifyRunStarted ==
    /\ vpc = "submit" /\ rpc = "returned"
    /\ reqResult.kind = "value"
    /\ reqResult.body \notin {BodyNull, BodyUndefined}
    /\ out' = [out EXCEPT !.human = IF opts.json THEN @ ELSE @ + 1]
    /\ logCursor' = 0
    /\ PollBegin([timeoutMs |-> timeoutMs,
                  initialIntervalMs |-> PollInitialIntervalMs,
                  maxIntervalMs |-> PollMaxIntervalMs,
                  label |-> "verify:run"])
    /\ vpc' = "poll"
    /\ rpc' = "idle"
    /\ UNCHANGED <<fpc, opts, body, timeoutMs, apiKey, walk, sentCursor, emitted, finalStatus,
                   result, exitCode, ending, logHist>>
    /\ UNCHANGED <<now, reqEndpoint, maxRetries, attempt, lastError, reqResult,
                   reqHist, attemptsMade, httpCount, opCount>>
    /\ UNCHANGED srvVars

----------------------------------------------------------------------------
\* The verify command: the poll callback and streamLogs

reqFrame == <<reqEndpoint, maxRetries, attempt, lastError, reqResult, reqHist,
              attemptsMade, httpCount, opCount>>

\* logs.nextCursor ?? cursor
nextCursorStale(logs, cursor) == cursor
nextCursorOr(logs, cursor) ==
    IF logs.nextCursor = <<>> THEN cursor ELSE logs.nextCursor[1]

\* catch { return cursor }
cursorAfterFailureEmpty(cursor) == 0
cursorAfterFailure(cursor) == cursor

\* streamLogs(client, runId, cursor, jsonMode) once client.get has settled:
\* the lines passed to logLine, the cursor returned, and whether it threw
streamLogsRethrows(res, cursor, json) ==
    IF res.kind = "value" /\ res.body.t = "logs"
    THEN [lines |-> IF json THEN <<>> ELSE res.body.lines,
          cursor |-> nextCursorOr(res.body, cursor),
          failed |-> FALSE, threw |-> FALSE]
    ELSE [lines |-> <<>>, cursor |-> cursorAfterFailure(cursor), failed |-> TRUE,
          threw |-> TRUE]
streamLogs(res, cursor, json) ==
    IF res.kind = "value" /\ res.body.t = "logs"
    THEN [lines |-> IF json THEN <<>> ELSE res.body.lines,
          cursor |-> nextCursorOr(res.body, cursor),
          failed |-> FALSE, threw |-> FALSE]
    ELSE [lines |-> <<>>, cursor |-> cursorAfterFailure(cursor), failed |-> TRUE,
          threw |-> FALSE]

\* if (opts.logs): false under --no-logs
logsEnabledAlways(o) == TRUE
logsEnabled(o) == o.logs

\* fn(), logs enabled: streamLogs calls client.get on the logs endpoint
FnStreamLogs ==
    /\ vpc = "poll" /\ ppc = "probing" /\ probePc = "called" /\ fpc = "idle"
    /\ logsEnabled(opts)
    /\ sentCursor' = logCursor
    /\ RequestBegin("logs")
    /\ fpc' = "logs"
    /\ logHist' = [logHist EXCEPT !.calls = @ + 1, !.last = "pending",
                                  !.before = logCursor,
                                  !.emittedBefore = Len(emitted)]
    /\ UNCHANGED <<vpc, opts, body, timeoutMs, apiKey, walk, logCursor, emitted, finalStatus,
                   result, out, exitCode, ending>>
    /\ UNCHANGED <<now, pollVars, srvVars>>

\* the endpoint fn requests for its result: GET .../verify/runs/${runId}
fnEndpointIsRuns == "runs"
fnEndpoint == "status"

\* fn(), --no-logs: client.get on the status endpoint at once
FnSkipLogs ==
    /\ vpc = "poll" /\ ppc = "probing" /\ probePc = "called" /\ fpc = "idle"
    /\ ~logsEnabled(opts)
    /\ RequestBegin(fnEndpoint)
    /\ fpc' = "status"
    /\ UNCHANGED <<vpc, opts, body, timeoutMs, apiKey, walk, logCursor, sentCursor, emitted,
                   finalStatus, result, out, exitCode, ending, logHist>>
    /\ UNCHANGED <<now, pollVars, srvVars>>

\* streamLogs settles; fn goes on to client.get on the status endpoint
FnLogsDone ==
    /\ vpc = "poll" /\ fpc = "logs" /\ rpc = "returned"
    /\ LET r == streamLogs(reqResult, sentCursor, opts.json) IN
         /\ emitted' = emitted \o r.lines
         /\ logCursor' = r.cursor
         /\ logHist' = [logHist EXCEPT !.last = IF r.failed THEN "failed" ELSE "ok"]
         /\ IF r.threw
            THEN /\ probeResult' = [kind |-> "throw", error |-> TypeError]
                 /\ probePc' = "returned"
                 /\ fpc' = "idle"
                 /\ rpc' = "idle"
                 /\ UNCHANGED reqFrame
            ELSE /\ RequestBegin(fnEndpoint)
                 /\ fpc' = "status"
                 /\ UNCHANGED <<probePc, probeResult>>
    /\ UNCHANGED <<vpc, opts, body, timeoutMs, apiKey, walk, sentCursor, finalStatus, result,
                   out, exitCode, ending>>
    /\ UNCHANGED <<ppc, pollOpts, deadline, interval, pollAttempt, pollResult, pollHist>>
    /\ UNCHANGED <<now, srvVars>>

\* client.get on the status endpoint settles: fn resolves or rejects with it
FnReturnThenDrainsLogs ==
    /\ vpc = "poll" /\ fpc = "status" /\ rpc = "returned"
    /\ probeResult' = IF reqResult.kind = "value" THEN reqResult
                      ELSE [kind |-> "throw", error |-> reqResult]
    /\ IF reqResult.kind = "value" /\ isDone(reqResult.body) /\ logsEnabled(opts)
       THEN /\ RequestBegin("logs")
            /\ fpc' = "logs"
            /\ UNCHANGED probePc
       ELSE /\ probePc' = "returned"
            /\ fpc' = "idle"
            /\ rpc' = "idle"
            /\ UNCHANGED reqFrame
    /\ UNCHANGED <<vpc, opts, body, timeoutMs, apiKey, walk, logCursor, sentCursor, emitted,
                   finalStatus, result, out, exitCode, ending, logHist>>
    /\ UNCHANGED <<ppc, pollOpts, deadline, interval, pollAttempt, pollResult, pollHist>>
    /\ UNCHANGED <<now, srvVars>>
FnReturn ==
    /\ vpc = "poll" /\ fpc = "status" /\ rpc = "returned"
    /\ probeResult' = IF reqResult.kind = "value" THEN reqResult
                      ELSE [kind |-> "throw", error |-> reqResult]
    /\ probePc' = "returned"
    /\ fpc' = "idle"
    /\ rpc' = "idle"
    /\ UNCHANGED reqFrame
    /\ UNCHANGED <<vpc, opts, body, timeoutMs, apiKey, walk, logCursor, sentCursor, emitted,
                   finalStatus, result, out, exitCode, ending, logHist>>
    /\ UNCHANGED <<ppc, pollOpts, deadline, interval, pollAttempt, pollResult, pollHist>>
    /\ UNCHANGED <<now, srvVars>>

----------------------------------------------------------------------------
\* The verify command: after the poll

RejectReasons == {"INSUFFICIENT_CREDITS", "INVALID_PAYLOAD", "NOT_IMPLEMENTED",
                  "RUNNER_ERROR", "TIMEOUT", "CONCURRENCY_CAP_REACHED"}

\* finalStatus.reasonCode ?? 'RUNNER_ERROR'
ReasonOfAsReceived(st) == st.reasonCode
ReasonOf(st) == IF st.reasonCode = "absent" THEN "RUNNER_ERROR" ELSE st.reasonCode

\* messages[reason] ?? `Run rejected: ${reason}`
RejectMessage(reason) ==
    IF reason = "INSUFFICIENT_CREDITS" THEN "purchase_credits"
    ELSE IF reason = "NOT_IMPLEMENTED" THEN "not_yet_available"
    ELSE IF reason = "CONCURRENCY_CAP_REACHED" THEN "retry_shortly"
    ELSE IF reason = "INVALID_PAYLOAD" THEN "invalid_payload"
    ELSE IF reason = "RUNNER_ERROR" THEN "internal_error"
    ELSE IF reason = "TIMEOUT" THEN "run_timed_out"
    ELSE "run_rejected_reason"

\* finalStatus.status === 'rejected'
IsRejectedOnlyWithReason(st) == st.status = "rejected" /\ st.reasonCode # "absent"
IsRejected(st) == st.status = "rejected"

\* process.exit(result.passed ? 0 : 1)
ExitCodeForInverted(passed) == IF passed THEN 1 ELSE 0
ExitCodeFor(passed) == IF passed THEN 0 ELSE 1

afterPollFrame == <<fpc, opts, body, timeoutMs, apiKey, walk, logCursor, sentCursor, emitted, logHist>>

\* poll threw PollTimeoutError
VerifyPollTimeoutAsApiError ==
    /\ vpc = "poll" /\ ppc = "returned"
    /\ pollResult.kind = "PollTimeoutError"
    /\ HandleApiError(pollResult)
    /\ UNCHANGED <<afterPollFrame, finalStatus, result>>
    /\ UNCHANGED <<now, reqVars, pollVars, srvVars>>
VerifyPollTimeout ==
    /\ vpc = "poll" /\ ppc = "returned"
    /\ pollResult.kind = "PollTimeoutError"
    /\ Exit(1, "poll_timeout", IF opts.json THEN 1 ELSE 0, IF opts.json THEN 0 ELSE 1,
            "timed_out")
    /\ UNCHANGED <<afterPollFrame, finalStatus, result>>
    /\ UNCHANGED <<now, reqVars, pollVars, srvVars>>

\* poll threw anything else: handleApiError
VerifyPollError ==
    /\ vpc = "poll" /\ ppc = "returned"
    /\ pollResult.kind = "throw"
    /\ HandleApiError(pollResult.error)
    /\ UNCHANGED <<afterPollFrame, finalStatus, result>>
    /\ UNCHANGED <<now, reqVars, pollVars, srvVars>>

\* the run was rejected: report the reason, exit 1
VerifyRejected ==
    /\ vpc = "poll" /\ ppc = "returned"
    /\ pollResult.kind = "value"
    /\ IsRejected(pollResult.body)
    /\ finalStatus' = pollResult.body
    /\ ExitWith(1, "rejected", IF opts.json THEN 1 ELSE 0, IF opts.json THEN 0 ELSE 1,
                IF opts.json THEN "run_rejected"
                ELSE RejectMessage(ReasonOf(pollResult.body)),
                ReasonOf(pollResult.body))
    /\ UNCHANGED <<afterPollFrame, result>>
    /\ UNCHANGED <<now, reqVars, pollVars, srvVars>>

\* any other terminal status: client.get on the result endpoint
VerifyFetchResult ==
    /\ vpc = "poll" /\ ppc = "returned"
    /\ pollResult.kind = "value"
    /\ ~IsRejected(pollResult.body)
    /\ finalStatus' = pollResult.body
    /\ RequestBegin("result")
    /\ vpc' = "result"
    /\ UNCHANGED <<afterPollFrame, result, out, exitCode, ending>>
    /\ UNCHANGED <<now, pollVars, srvVars>>

\* the result fetch threw: handleApiError
VerifyResultFailed ==
    /\ vpc = "result" /\ rpc = "returned"
    /\ reqResult.kind # "value"
    /\ HandleApiError(reqResult)
    /\ rpc' = "idle"
    /\ UNCHANGED reqFrame
    /\ UNCHANGED <<afterPollFrame, finalStatus, result>>
    /\ UNCHANGED <<now, pollVars, srvVars>>

\* the result fetch returned no object: in JSON mode emitJson still writes
\* {status}, then reading result.passed throws in either mode
VerifyResultCrash ==
    /\ vpc = "result" /\ rpc = "returned"
    /\ reqResult.kind = "value"
    /\ reqResult.body \in {BodyNull, BodyUndefined}
    /\ Exit(1, "crash", IF opts.json THEN 1 ELSE 0, 1, "unexpected_error")
    /\ rpc' = "idle"
    /\ UNCHANGED reqFrame
    /\ UNCHANGED <<afterPollFrame, finalStatus, result>>
    /\ UNCHANGED <<now, pollVars, srvVars>>

\* the result was retrieved: report it and exit by result.passed
VerifyReport ==
    /\ vpc = "result" /\ rpc = "returned"
    /\ reqResult.kind = "value"
    /\ reqResult.body \notin {BodyNull, BodyUndefined}
    /\ result' = reqResult.body
    /\ Exit(ExitCodeFor(reqResult.body.passed), "result",
            IF opts.json THEN 1 ELSE 0, IF opts.json THEN 0 ELSE 1,
            IF reqResult.body.passed THEN "passed" ELSE "failed")
    /\ rpc' = "idle"
    /\ UNCHANGED reqFrame
    /\ UNCHANGED <<afterPollFrame, finalStatus>>
    /\ UNCHANGED <<now, pollVars, srvVars>>

----------------------------------------------------------------------------
\* The server and the network, as one invocation of verify sees them

\* the run only moves forward: queued, running, then one terminal state
NextStatuses(cur) ==
    IF cur.status \in Terminal THEN {cur}
    ELSE {StatusBody(st, "absent") :
            st \in (IF cur.status = "queued" THEN {"queued", "running"}
                    ELSE {"running"}) \cup {"success", "failed", "timeout"}}
         \cup {StatusBody("rejected", rc) : rc \in RejectReasons \cup {"absent", "OTHER"}}

\* lines from+1 .. to of the run's log, by sequence number
LogLines(from, to) == [i \in 1..(to - from) |-> from + i]

\* what the network does to the requests of one invocation: a response
\* arrives at once, or the attempt fails at once or at the abort timer
WireDurations == {0}
WireStatuses == {200, 204, 401, 402, 429, 503}

\* an attempt is answered: an outage that was going on is over
Answered ==
    /\ outage' = IF outage = "none" THEN "none" ELSE "over"
    /\ UNCHANGED faults

\* POST /verify/runs answers {runId, status, creditsEstimated}
SrvRunCreated ==
    /\ reqEndpoint = "runs"
    /\ \E d \in WireDurations : ReqSuccess(d, 200, [t |-> "run", runId |-> "run"])
    /\ Answered
    /\ UNCHANGED <<pollVars, verifyVars, srvStatus>>

\* GET /verify/runs/{id} answers the state of the run, which may have advanced
SrvStatus ==
    /\ reqEndpoint = "status"
    /\ \E d \in WireDurations, st \in NextStatuses(srvStatus) :
         /\ ReqSuccess(d, 200, st)
         /\ srvStatus' = st
    /\ Answered
    /\ UNCHANGED <<pollVars, verifyVars>>

\* GET .../logs?cursor= answers the lines after the cursor, up to some line
\* the log has by then, and the cursor of the last line sent; an empty batch
\* may come without a cursor
SrvLogs ==
    /\ reqEndpoint = "logs"
    /\ \E d \in WireDurations, to \in sentCursor..MaxLog, done \in BOOLEAN :
         \E nc \in {<<to>>} \cup (IF to = sentCursor THEN {<<>>} ELSE {}) :
           ReqSuccess(d, 200, [t |-> "logs", lines |-> LogLines(sentCursor, to),
                               nextCursor |-> nc, done |-> done])
    /\ Answered
    /\ UNCHANGED <<pollVars, verifyVars, srvStatus>>

\* GET .../result answers {runId, passed, summary, checks, creditsUsed}
SrvResult ==
    /\ reqEndpoint = "result"
    /\ \E d \in WireDurations, passed \in BOOLEAN :
         ReqSuccess(d, 200, [t |-> "result", passed |-> passed])
    /\ Answered
    /\ UNCHANGED <<pollVars, verifyVars, srvStatus>>

\* a 2xx answer whose body decodes to null, whatever the endpoint
SrvNull ==
    /\ \E d \in WireDurations : ReqSuccess(d, 200, BodyNull)
    /\ Answered
    /\ UNCHANGED <<pollVars, verifyVars, srvStatus>>

NetClientError ==
    /\ \E d \in WireDurations, s \in WireStatuses : ReqClientError(d, s)
    /\ Answered
    /\ UNCHANGED <<pollVars, verifyVars, srvStatus>>

NetNoContent ==
    /\ \E d \in WireDurations, s \in WireStatuses : ReqNoContent(d, s)
    /\ Answered
    /\ UNCHANGED <<pollVars, verifyVars, srvStatus>>

\* a transient failure of one attempt: the invocation sees one outage, at most
\* MaxFaults consecutive attempts failing in the same way
Fault(kind) ==
    /\ faults < MaxFaults
    /\ outage \in {"none", kind}
    /\ outage' = kind
    /\ faults' = faults + 1
    /\ UNCHANGED <<pollVars, verifyVars, srvStatus>>

NetNetworkFailure == ReqNetworkFailure(0) /\ Fault("unreachable")
NetRequestTimeout == ReqNetworkFailure(RequestTimeout) /\ Fault("timeout")
NetRateLimited ==
    /\ \E d \in WireDurations, s \in WireStatuses, h \in {HeaderAbsent} :
         ReqRateLimited(d, s, h)
    /\ Fault("rate_limited")
NetServerError ==
    /\ \E d \in WireDurations, s \in WireStatuses : ReqServerError(d, s)
    /\ Fault("server_error")

NetLoop == ReqLoopEnter /\ UNCHANGED <<pollVars, verifyVars, srvVars>>
NetSend == ReqSend /\ UNCHANGED <<pollVars, verifyVars, srvVars>>
NetExhausted == ReqExhausted /\ UNCHANGED <<pollVars, verifyVars, srvVars>>

----------------------------------------------------------------------------
\* Spec: one invocation of "prokodo verify"

Init ==
    /\ now = 0
    /\ maxRetries = DefaultMaxRetries
    /\ InitReq
    /\ InitPoll
    /\ InitVerify
    /\ InitServer

Next ==
    \/ VerifyUsageError
    \/ VerifySubmit
    \/ VerifySubmitFailed
    \/ VerifySubmitCrash
    \/ VerifyRunStarted
    \/ FnStreamLogs
    \/ FnSkipLogs
    \/ FnLogsDone
    \/ FnReturn
    \/ VerifyPollTimeout
    \/ VerifyPollError
    \/ VerifyRejected
    \/ VerifyFetchResult
    \/ VerifyResultFailed
    \/ VerifyResultCrash
    \/ VerifyReport
    \/ PollInvoke /\ UNCHANGED <<reqVars, verifyVars, srvVars>>
    \/ PollDeadline /\ UNCHANGED <<reqVars, verifyVars, srvVars>>
    \/ PollProbeThrew /\ UNCHANGED <<reqVars, verifyVars, srvVars>>
    \/ PollIsDoneThrew /\ UNCHANGED <<reqVars, verifyVars, srvVars>>
    \/ PollDone /\ UNCHANGED <<reqVars, verifyVars, srvVars>>
    \/ PollBreak /\ UNCHANGED <<reqVars, verifyVars, srvVars>>
    \/ PollSleep /\ UNCHANGED <<reqVars, verifyVars, srvVars>>
    \/ NetLoop
    \/ NetSend
    \/ NetClientError
    \/ NetNoContent
    \/ NetExhausted
    \/ NetNetworkFailure
    \/ NetRequestTimeout
    \/ NetRateLimited
    \/ NetServerError
    \/ SrvRunCreated
    \/ SrvStatus
    \/ SrvLogs
    \/ SrvResult
    \/ SrvNull

Spec == Init /\ [][Next]_vars

\* SpecInputs: the command up to the submission, over every combination of inputs
NextInputs ==
    \/ VerifyUsageErrorWide
    \/ VerifySubmitWide

SpecInputs == Init /\ [][NextInputs]_vars

----------------------------------------------------------------------------
\* collectFiles (SpecFiles)

\* number of entries of an include list
MaxInclude == 3
\* stat.size > 500_000
MaxFileSize == 500000

NodeModules == <<"n", "o", "d", "e", "_", "m", "o", "d", "u", "l", "e", "s">>

\* the working directory: each file as the names from the directory down,
\* in the order readdirSync lists them, with its size in bytes
FsFiles ==
    << [path |-> <<<<".", "e">>>>, size |-> 10],
       [path |-> <<<<"a">>>>, size |-> MaxFileSize],
       [path |-> <<<<"b">>>>, size |-> MaxFileSize + 1],
       [path |-> <<NodeModules, <<"m">>>>, size |-> 10],
       [path |-> <<<<"s">>, <<".", "h">>>>, size |-> 10],
       [path |-> <<<<"s">>, <<"b">>>>, size |-> MaxFileSize + 1],
       [path |-> <<<<"s">>, <<"i">>>>, size |-> 10],
       [path |-> <<<<"s">>, NodeModules, <<"d">>>>, size |-> 10] >>

IsPrefix(dir, p) == Len(p) > Len(dir) /\ SubSeq(p, 1, Len(dir)) = dir
FileAt(p) == {i \in 1..Len(FsFiles) : FsFiles[i].path = p}
IsDirectory(p) == \E i \in 1..Len(FsFiles) : IsPrefix(p, FsFiles[i].path)

\* readdirSync(dir): the entries of dir, each once, in listing order
RECURSIVE readdir(_, _, _)
readdir(dir, i, acc) ==
    IF i > Len(FsFiles) THEN acc
    ELSE LET p == FsFiles[i].path
             e == SubSeq(p, 1, Len(dir) + 1)
         IN  IF IsPrefix(dir, p) /\ \A j \in 1..Len(acc) : acc[j] # e
             THEN readdir(dir, i + 1, Append(acc, e))
             ELSE readdir(dir, i + 1, acc)

\* a file that is not in seen: skipped with a warning when it is too large,
\* else added to seen and files (acc.files doubles as seen)
addFile(p, acc) ==
    IF \E j \in 1..Len(acc.files) : acc.files[j] = p THEN acc
    ELSE IF FsFiles[CHOOSE i \in FileAt(p) : TRUE].size > MaxFileSize
    THEN [acc EXCEPT !.warned = @ + 1]
    ELSE [acc EXCEPT !.files = Append(@, p)]

\* walkDir(dir, cwd, seen, files) over the entries of dir not yet visited
RECURSIVE walkDir(_, _)
walkDir(entries, acc) ==
    IF entries = <<>> THEN acc
    ELSE LET e == Head(entries)
             name == e[Len(e)]
         IN  IF StartsWith(name, ".") \/ name = NodeModules
             THEN walkDir(Tail(entries), acc)
             ELSE IF IsDirectory(e)
             THEN walkDir(Tail(entries), walkDir(readdir(e, 1, <<>>), acc))
             ELSE walkDir(Tail(entries), addFile(e, acc))

\* collectFiles(include), multi-file mode: the loop over the include entries
RECURSIVE collectFiles(_, _)
collectFiles(include, acc) ==
    IF include = <<>> THEN acc
    ELSE LET abs == Head(include) IN
         IF FileAt(abs) # {} THEN collectFiles(Tail(include), addFile(abs, acc))
         ELSE IF IsDirectory(abs)
         THEN collectFiles(Tail(include), walkDir(readdir(abs, 1, <<>>), acc))
         ELSE collectFiles(Tail(include), acc)

\* include entries, resolved against the working directory: '.', files,
\* directories, and a path that does not exist
IncludeEntries ==
    {<<>>, <<<<"s">>>>, <<<<"a">>>>, <<<<"b">>>>, <<<<".", "e">>>>, <<NodeModules>>,
     <<<<"s">>, <<"i">>>>, <<<<"x">>>>}

CollectFilesCall ==
    /\ walk.include = <<>> /\ vpc = "start"
    /\ \E include \in UNION {[1..n -> IncludeEntries] : n \in 1..MaxInclude} :
         walk' = collectFiles(include, [include |-> include, files |-> <<>>,
                                        warned |-> 0])
    /\ UNCHANGED <<vpc, fpc, opts, body, timeoutMs, apiKey, logCursor, sentCursor,
                   emitted, finalStatus, result, out, exitCode, ending, logHist>>
    /\ UNCHANGED <<now, reqVars, pollVars, srvVars>>

SpecFiles == Init /\ [][CollectFilesCall]_vars

----------------------------------------------------------------------------
\* Properties of ApiClient.request (SpecClient)

\* C1: with maxRetries = N, a call that receives a 5xx response on every
\* attempt makes exactly N + 1 HTTP attempts and then fails with an
\* ApiRequestError carrying the 5xx status (of the last response).
RetryBudgetOn5xx ==
    (attemptsMade > 0 /\ reqHist.only5xx) =>
        /\ attemptsMade <= maxRetries + 1
        /\ rpc = "returned" =>
             /\ attemptsMade = maxRetries + 1
             /\ reqResult = ApiRequestError(reqHist.last.status)
             /\ reqResult.statusCode >= 500

RetryBudgetOn5xxWitness ==
    /\ rpc = "returned" /\ reqHist.only5xx
    /\ maxRetries = 2 /\ attemptsMade = 3
    /\ reqResult.kind = "ApiRequestError"

\* C2: a 4xx response other than 429 ends the call at once with an
\* ApiRequestError for that status and no further HTTP attempt, on the first
\* attempt (exactly 1 attempt) as well as after earlier retried failures.
Definitive4xx(status) == status >= 400 /\ status < 500 /\ status # 429

NoRetryOn4xx ==
    Definitive4xx(reqHist.last.status) =>
        /\ rpc = "returned"
        /\ reqResult = ApiRequestError(reqHist.last.status)
        /\ attemptsMade = attempt + 1

NoRetryOn4xxWitness ==
    /\ Definitive4xx(reqHist.last.status)
    /\ rpc = "returned" /\ attemptsMade = 3 /\ maxRetries = 3

----------------------------------------------------------------------------
\* Properties of poll (SpecPoll)

\* C6: the probe is never invoked at or after the deadline; a
\* PollTimeoutError is thrown only once the deadline has been reached and
\* carries the configured label and timeout; and a poll that ends without its
\* probe ever returning a done value (and without anything thrown) ends with
\* that PollTimeoutError.
PollTimesOutAtDeadline ==
    /\ pollHist.lastProbeAt # -1 => pollHist.lastProbeAt < deadline
    /\ pollResult.kind = "PollTimeoutError" =>
         /\ now >= deadline
         /\ pollResult.label = pollOpts.label
         /\ pollResult.timeoutMs = pollOpts.timeoutMs
    /\ (ppc = "returned" /\ ~pollHist.firstDone.set /\ pollResult.kind # "throw") =>
         pollResult.kind = "PollTimeoutError"

PollTimesOutAtDeadlineWitness ==
    /\ ppc = "returned" /\ pollResult.kind = "PollTimeoutError"
    /\ pollAttempt >= 2 /\ now = deadline

\* C7: the first probe result that is non-null and satisfies isDone is what
\* poll returns, at the moment the probe returned it: no sleep and no further
\* probe follow; a probe done on its first call gives exactly 1 invocation.
FirstDoneIsReturned ==
    pollHist.firstDone.set =>
        /\ ppc = "returned"
        /\ pollResult = [kind |-> "value", body |-> pollHist.firstDone.what]
        /\ pollAttempt = pollHist.firstDone.attempt
        /\ now = pollHist.firstDone.at

FirstDoneIsReturnedWitness ==
    /\ pollHist.firstDone.set /\ pollHist.firstDone.attempt = 1
    /\ pollAttempt = 1 /\ pollResult.kind = "value"

\* C8: an error thrown by the probe leaves poll as that same error, at the
\* moment it was thrown: it is not swallowed, not turned into a
\* PollTimeoutError, and no probe or sleep follows.
ProbeErrorPropagates ==
    pollHist.firstThrow.set =>
        /\ ppc = "returned"
        /\ pollResult = [kind |-> "throw", error |-> pollHist.firstThrow.what]
        /\ pollAttempt = pollHist.firstThrow.attempt
        /\ now = pollHist.firstThrow.at

ProbeErrorPropagatesWitness ==
    /\ pollHist.firstThrow.set /\ pollHist.firstThrow.attempt = 2
    /\ pollResult.kind = "throw" /\ pollHist.sleeps = 1

\* C11 as stated: the time between a 429 response and the next attempt is the
\* Retry-After value in milliseconds when the header is present and numeric
\* (none for Retry-After: 0), and 5000 ms when it is absent or non-numeric.
ClaimedRateLimitWait(h) ==
    IF h = HeaderAbsent \/ NumberOf(h) = NaN THEN 5000 ELSE NumberOf(h) * 1000

WaitAfter429IsRetryAfter ==
    (rpc = "inflight" /\ reqHist.last.status = 429) =>
        reqHist.gap = ClaimedRateLimitWait(reqHist.last.hdr)

\* C12: after a transport failure or a 5xx response on attempt k, the time
\* until attempt k+1 is 1000, 2000, 4000, 8000 ms for k = 0..3 and 10000 ms
\* for every later k.
ClaimedBackoff(k) ==
    CASE k = 0 -> 1000 [] k = 1 -> 2000 [] k = 2 -> 4000 [] k = 3 -> 8000
      [] OTHER -> 10000

BackoffDelayIsCappedExponential ==
    (rpc = "inflight" /\ attempt >= 1
       /\ (reqHist.last.status = 0 \/ reqHist.last.status >= 500)) =>
        reqHist.gap = ClaimedBackoff(attempt - 1)

BackoffDelayIsCappedExponentialWitness ==
    /\ rpc = "inflight" /\ attempt = 5
    /\ reqHist.last.status = 0
    /\ reqHist.gap = 10000

\* the call ended because the loop ran out of attempts
BudgetExhausted == rpc = "returned" /\ attempt > maxRetries

\* C13 as stated: when the budget is exhausted the call fails with an
\* ApiRequestError exactly when a 5xx or 429 response was received on some
\* attempt, and with the generic error otherwise.
ExhaustedErrorFollowsAnyAttempt ==
    BudgetExhausted =>
        (reqResult.kind = "ApiRequestError" <=> reqHist.sawRequestError)

\* C13 amended: when the budget is exhausted the call fails with the
\* ApiRequestError of the last attempt if that attempt received a 5xx or 429
\* response, and with the generic error if the last attempt failed otherwise,
\* whatever the earlier attempts received.
ExhaustedErrorFollowsLastAttempt ==
    BudgetExhausted =>
        reqResult = IF reqHist.last.status = 429 \/ reqHist.last.status >= 500
                    THEN ApiRequestError(reqHist.last.status)
                    ELSE RetriesExhaustedError

ExhaustedErrorFollowsLastAttemptWitness ==
    /\ BudgetExhausted
    /\ reqHist.sawRequestError
    /\ reqHist.last.status = 0
    /\ reqResult = RetriesExhaustedError

----------------------------------------------------------------------------
\* Properties of the verify command (Spec)

\* the exit code the claim gives a retrieved result
ExitOf(passed) == IF passed THEN 0 ELSE 1

\* the poll has returned a terminal status
PollReturned(statuses) ==
    /\ ppc = "returned"
    /\ pollResult.kind = "value"
    /\ pollResult.body.status \in statuses

\* C3: when the terminal status of the run is rejected, the result endpoint
\* is never requested, whatever the reason code and the output mode.
RejectedRunNeverFetchesResult ==
    PollReturned({"rejected"}) =>
        /\ httpCount["result"] = 0
        /\ opCount["result"] = 0
        /\ vpc # "result"

RejectedRunNeverFetchesResultWitness ==
    /\ PollReturned({"rejected"})
    /\ pollResult.body.reasonCode = "absent"
    /\ vpc = "exited" /\ exitCode = 1 /\ opts.json

ExitCodeMeaning ==
    /\ exitCode \in {-1, 0, 1, 2}
    /\ exitCode # -1 <=> vpc = "exited"
    /\ exitCode = 0 =>
         /\ PollReturned({"success", "failed", "timeout"})
         /\ result # NoError /\ result.passed
         /\ httpCount["result"] >= 1
    /\ (vpc = "exited" /\ result # NoError) => exitCode = ExitOf(result.passed)
    /\ (vpc = "exited" /\ result = NoError) =>
         exitCode = IF UsageError(opts) # "none" THEN 2 ELSE 1
    /\ exitCode = 2 => (UsageError(opts) # "none" /\ \A e \in Endpoints : httpCount[e] = 0)

ExitCodeMeaningWitness ==
    /\ vpc = "exited" /\ exitCode = 0
    /\ pollResult.body.status = "failed" /\ result.passed

\* C9: a failed log fetch leaves the cursor as it was, emits nothing, and the
\* tick goes on to its status request, whose outcome is the outcome of fn.
LogFailureIsSwallowed ==
    logHist.last = "failed" =>
        /\ logCursor = logHist.before
        /\ Len(emitted) = logHist.emittedBefore
        /\ opCount["status"] = logHist.calls
        /\ fpc = "status" => (vpc = "poll" /\ probePc = "called" /\ reqEndpoint = "status")
        /\ (fpc = "idle" /\ probePc = "returned") =>
             probeResult = IF reqResult.kind = "value" THEN reqResult
                           ELSE [kind |-> "throw", error |-> reqResult]

LogFailureIsSwallowedWitness ==
    /\ logHist.last = "failed" /\ logHist.before = 1
    /\ PollReturned({"success"})
    /\ vpc = "exited" /\ exitCode = 0

SubmittedOnce ==
    /\ opCount["runs"] <= 1
    /\ vpc \in {"submit", "poll", "result"} => opCount["runs"] = 1
    /\ (vpc = "exited" /\ UsageError(opts) = "none") => opCount["runs"] = 1
    /\ (opCount["logs"] + opCount["status"] + opCount["result"] > 0) =>
         opCount["runs"] = 1
    /\ ppc # "idle" =>
         ~(reqEndpoint = "runs" /\ rpc \in {"loop", "send", "inflight"})

SubmittedOnceWitness ==
    /\ vpc = "exited" /\ exitCode = 0
    /\ opCount["runs"] = 1 /\ opCount["status"] = 3 /\ opCount["logs"] = 3

OnlyStatusRequestFailedOnNetwork ==
    /\ vpc = "exited"
    /\ reqEndpoint = "status" /\ opCount["status"] = 1
    /\ attemptsMade >= 1 /\ reqHist.onlyNet

\* C16 as stated: if the submission succeeds and every status request fails
\* at the network level, the process exits 1 with the timeout message.
NetworkFailuresEndInTimeout ==
    OnlyStatusRequestFailedOnNetwork =>
        (exitCode = 1 /\ out.msg = "timed_out")

\* C16 amended: if the submission succeeds and every attempt of the first
\* status request fails at the network level, the process exits 1 with the
\* network-error report as soon as that request has used its maxRetries + 1
\* attempts, whether or not the poll deadline has passed by then.
NetworkFailuresEndInNetworkError ==
    OnlyStatusRequestFailedOnNetwork =>
        /\ exitCode = 1
        /\ out.msg = "network_error"
        /\ ending = "network_error"
        /\ pollResult = [kind |-> "throw", error |-> RetriesExhaustedError]
        /\ httpCount["status"] = maxRetries + 1
        /\ pollAttempt = 1

NetworkFailuresEndInNetworkErrorWitness ==
    /\ OnlyStatusRequestFailedOnNetwork
    /\ now >= deadline
    /\ out.msg = "network_error"

ClaimedReason(rc) == IF rc = "absent" THEN "RUNNER_ERROR" ELSE rc
ClaimedGuidance(rc) ==
    CASE rc = "INSUFFICIENT_CREDITS" -> "purchase_credits"
      [] rc = "NOT_IMPLEMENTED" -> "not_yet_available"
      [] rc = "CONCURRENCY_CAP_REACHED" -> "retry_shortly"
      [] rc = "INVALID_PAYLOAD" -> "invalid_payload"
      [] rc = "RUNNER_ERROR" -> "internal_error"
      [] rc = "TIMEOUT" -> "run_timed_out"
      [] OTHER -> "run_rejected_reason"

RejectedRunReport ==
    (vpc = "exited" /\ PollReturned({"rejected"})) =>
        /\ exitCode = 1
        /\ out.reason = ClaimedReason(pollResult.body.reasonCode)
        /\ IF opts.json
           THEN out.json = 1 /\ out.human = 0 /\ out.msg = "run_rejected"
           ELSE /\ out.json = 0
                /\ out.human = 2 + (IF opts.file # Absent THEN 1 ELSE 0)
                /\ out.msg = ClaimedGuidance(ClaimedReason(pollResult.body.reasonCode))

RejectedRunReportWitness ==
    /\ vpc = "exited" /\ PollReturned({"rejected"})
    /\ pollResult.body.reasonCode = "absent"
    /\ ~opts.json /\ out.msg = "internal_error"

\* C19: every usage error (invalid --type, unsupported positional argument,
\* package reference without --type, non-numeric or non-positive --timeout,
\* empty file set, no credential) exits 2 before any HTTP request.
ClaimedUsageError(o) ==
    \/ o.type \notin {"absent", "n8n-node"}
    \/ o.file # Absent /\ ~isNpmPackageArg(o.file)
    \/ o.file # Absent /\ o.type = "absent"
    \/ o.timeout # Absent /\ (NumberOf(o.timeout) = NaN \/ NumberOf(o.timeout) <= 0)
    \/ o.file = Absent /\ o.files = 0
    \/ \A src \in {"flag", "env", "stored"} :
          o.keys[src] = Absent \/ \A i \in 1..Len(o.keys[src]) : o.keys[src][i] = " "

OneOutputShape ==
    (vpc = "exited" /\ opCount["runs"] = 1) =>
        IF opts.json THEN out.json = 1 /\ out.human = 0
        ELSE out.json = 0 /\ out.human >= 1

----------------------------------------------------------------------------
\* Properties of the inputs of the command (SpecInputs)

\* C21: the submission payload has exactly one of two shapes: a file list and
\* no package reference (local mode), or a package reference and no file list
\* (package mode, built whatever the local config and file walk would give);
\* never both, never neither.
ClaimedPackageTimeoutMs(o) ==
    IF o.timeout = Absent THEN 300000 ELSE NumberOf(o.timeout) * 1000

OnePayloadShape ==
    body # NoBody =>
        /\ (body.packageRef # Absent) # (body.files > 0)
        /\ opts.file \notin {Absent, <<>>} =>
             /\ body.packageRef = opts.file /\ body.files = 0
             /\ timeoutMs = ClaimedPackageTimeoutMs(opts)
        /\ opts.file \in {Absent, <<>>} =>
             /\ body.packageRef = Absent /\ body.files = opts.files

OnePayloadShapeWitness ==
    /\ vpc = "submit" /\ body.packageRef = opts.file /\ opts.file # Absent
    /\ opts.files = 0 /\ opts.cfgTimeout = <<0>> /\ opts.timeout = Absent

\* C22: resolveApiKey returns the trimmed credential of the first non-blank
\* source in the order --api-key flag, PROKODO_API_KEY, credentials file; a
\* missing, empty or whitespace-only source is skipped; with no source left
\* the command exits 2.
NonBlank(str) == str # Absent /\ \E i \in 1..Len(str) : str[i] # " "
Stripped(str) ==
    LET inked == {i \in 1..Len(str) : str[i] # " "}
        first == CHOOSE i \in inked : \A j \in inked : i <= j
        last == CHOOSE i \in inked : \A j \in inked : i >= j
    IN  SubSeq(str, first, last)
ClaimedOrder(k) == <<k.flag, k.env, k.stored>>
ClaimedSource(k) ==
    CHOOSE i \in 1..3 :
        /\ NonBlank(ClaimedOrder(k)[i])
        /\ \A j \in 1..(i - 1) : ~NonBlank(ClaimedOrder(k)[j])

KeyIsFirstNonBlankSource ==
    /\ vpc = "submit" =>
         /\ \E i \in 1..3 : NonBlank(ClaimedOrder(opts.keys)[i])
         /\ apiKey = Stripped(ClaimedOrder(opts.keys)[ClaimedSource(opts.keys)])
    /\ (vpc # "start" /\ \A i \in 1..3 : ~NonBlank(ClaimedOrder(opts.keys)[i])) =>
         vpc = "exited" /\ exitCode = 2 /\ apiKey = NoKey

KeyIsFirstNonBlankSourceWitness ==
    /\ vpc = "submit" /\ apiKey = <<"e">>
    /\ opts.keys.flag = <<" ">> /\ opts.keys.env = <<" ", "e", " ">>
    /\ opts.keys.stored = <<"s">>

----------------------------------------------------------------------------
\* Properties of the poll ticks of the command (Spec)

\* C23: polling stops at the first status response that carries success,
\* failed, timeout or rejected: poll returns that response, and no status or
\* log request is made afterwards; a queued or running response never makes
\* poll return.
ClaimedTerminal == {"success", "failed", "timeout", "rejected"}
TerminalReceived ==
    /\ probeResult.kind = "value"
    /\ probeResult.body \notin {BodyNull, BodyUndefined}
    /\ probeResult.body.status \in ClaimedTerminal

PollStopsAtFirstTerminal ==
    /\ TerminalReceived =>
         /\ reqEndpoint \in {"status", "logs"} => rpc \in {"idle", "returned"}
         /\ fpc = "idle"
         /\ opCount["status"] = pollAttempt /\ opCount["logs"] <= pollAttempt
         /\ ppc = "returned" \/ (ppc = "probing" /\ probePc = "returned")
         /\ ppc = "returned" => pollResult = [kind |-> "value", body |-> probeResult.body]
    /\ (ppc = "returned" /\ pollResult.kind = "value") =>
         pollResult.body.status \in ClaimedTerminal

PollStopsAtFirstTerminalWitness ==
    /\ vpc = "exited" /\ TerminalReceived
    /\ probeResult.body.status = "timeout"
    /\ pollAttempt = 2 /\ opts.logs /\ opCount["logs"] = 2

----------------------------------------------------------------------------
\* Properties of ApiClient.request, continued (SpecClient)

\* C24: when an attempt of request() receives a 2xx response (one whose body
\* decodes, or a 204), request() returns that response's decoded body,
\* undefined for 204, whatever 5xx, 429 or transport failures the earlier
\* attempts ended in, and throws nothing; that attempt is one of the
\* maxRetries + 1.
SuccessHidesEarlierFailures ==
    (rpc = "returned" /\ reqHist.last.status \in {200, 204}
                      /\ reqHist.last.class # "badjson") =>
        /\ reqResult.kind = "value"
        /\ reqResult.body = IF reqHist.last.status = 204 THEN [t |-> "undefined"]
                            ELSE reqHist.decoded
        /\ attemptsMade <= maxRetries + 1

SuccessHidesEarlierFailuresWitness ==
    /\ rpc = "returned" /\ reqResult = [kind |-> "value", body |-> [t |-> "json"]]
    /\ reqHist.last.status = 200
    /\ reqHist.sawRequestError /\ reqHist.sawAbort
    /\ maxRetries = 3 /\ attemptsMade = maxRetries + 1

----------------------------------------------------------------------------
\* Properties of poll, continued (SpecPoll)

\* C25: after each probe that is not done, poll stops when no time remains
\* and otherwise sleeps min(currentDelay, remaining); currentDelay starts at
\* the initial delay and is doubled, capped at the maximum, after every
\* sleep; no sleep ends after the deadline.
RECURSIVE ClaimedDelay(_)
ClaimedDelay(k) ==
    IF k = 0 THEN pollOpts.initialIntervalMs
    ELSE IF 2 * ClaimedDelay(k - 1) > pollOpts.maxIntervalMs THEN pollOpts.maxIntervalMs
    ELSE 2 * ClaimedDelay(k - 1)

SleepIsDelayOrRemaining ==
    /\ pollHist.sleeps > 0 =>
         LET remaining == deadline - pollHist.sleptAt
             delay == ClaimedDelay(pollHist.sleeps - 1)
         IN  /\ remaining > 0
             /\ pollHist.lastSleep = IF delay < remaining THEN delay ELSE remaining
             /\ pollHist.sleptAt + pollHist.lastSleep <= deadline
    /\ ppc \in {"check", "probing"} => interval = ClaimedDelay(pollHist.sleeps)
    \* every probe that was not done was followed by a sleep, or by the end
    /\ ppc = "check" =>
         /\ pollHist.sleeps = pollAttempt
         /\ pollHist.sleeps > 0 => now = pollHist.sleptAt + pollHist.lastSleep
    /\ (ppc = "returned" /\ pollResult.kind = "PollTimeoutError"
                         /\ pollHist.sleeps < pollAttempt) =>
         pollHist.sleeps = pollAttempt - 1 /\ now >= deadline

SleepIsDelayOrRemainingWitness ==
    /\ ppc = "check" /\ pollHist.sleeps = 3
    /\ pollOpts.initialIntervalMs = 1000 /\ pollOpts.maxIntervalMs = 10000
    /\ pollHist.lastSleep < 4000 /\ pollHist.lastSleep > 0 /\ now = deadline

\* C26 as stated: for every combination of initial and maximum delay, no
\* sleep between two probes is longer than the maximum delay.
NoSleepLongerThanMax ==
    pollHist.sleeps > 0 => pollHist.lastSleep <= pollOpts.maxIntervalMs

\* C27: a probe result of null is "not yet ready": the done-predicate is not
\* evaluated on it, nothing is thrown because of it, and poll goes on with
\* its sleep and the next probe as long as the deadline has not passed.
NullProbe == probeResult = [kind |-> "value", body |-> BodyNull]

NullIsNotReady ==
    NullProbe =>
        /\ pollResult.kind \in {"none", "PollTimeoutError"}
        /\ ppc = "returned" => now >= deadline
        /\ ppc = "check" =>
             /\ pollHist.sleeps = pollAttempt
             /\ pollHist.sleptAt < deadline
             /\ now = pollHist.sleptAt + pollHist.lastSleep
        /\ pollHist.firstDone.set => pollHist.firstDone.attempt < pollAttempt

NullIsNotReadyWitness ==
    /\ NullProbe /\ ppc = "probing" /\ probePc = "called"
    /\ pollAttempt = 3 /\ pollHist.sleeps = 2 /\ now < deadline

----------------------------------------------------------------------------
\* Properties of the poll ticks of the command, continued (Spec)

TickStarting == ppc = "probing" /\ probePc = "called" /\ fpc = "idle"

OneLogCallBeforeEachStatusRequest ==
    vpc # "start" =>
        IF opts.logs
        THEN /\ opCount["logs"] = logHist.calls
             /\ logHist.calls = IF TickStarting THEN pollAttempt - 1 ELSE pollAttempt
             /\ fpc = "logs" =>
                  logHist.last = "pending" /\ opCount["status"] = pollAttempt - 1
             /\ fpc # "logs" => logHist.last # "pending"
             /\ fpc = "status" => opCount["status"] = pollAttempt
        ELSE opCount["logs"] = 0 /\ httpCount["logs"] = 0 /\ logHist.calls = 0

OneLogCallBeforeEachStatusRequestWitness ==
    /\ vpc = "poll" /\ opts.logs /\ fpc = "status" /\ rpc = "inflight"
    /\ pollAttempt = 2 /\ logHist.calls = 2 /\ logHist.last = "failed"
    /\ opCount["status"] = 2

\* C30: an invocation has one thread of control: at most one HTTP request is
\* in flight at any instant; the log fetch of a tick is over when the status
\* request of the tick begins; and no request is in flight, and none is
\* started, while the transport client sleeps between two attempts or the
\* poll engine sleeps between two probes.
RequestInProgress == rpc \in {"loop", "send", "inflight"}

SingleThreadOfControl ==
    /\ reqHist.open = IF rpc = "inflight" THEN 1 ELSE 0
    /\ RequestInProgress =>
         \/ vpc \in {"submit", "result"} /\ ppc \in {"idle", "returned"}
         \/ /\ vpc = "poll" /\ ppc = "probing" /\ probePc = "called"
            /\ fpc = (IF reqEndpoint = "logs" THEN "logs" ELSE "status")
    /\ (fpc = "status" /\ opts.logs) => logHist.last \in {"ok", "failed"}
    /\ ppc = "check" => rpc = "idle" /\ fpc = "idle"

SingleThreadOfControlWitness ==
    /\ vpc = "poll" /\ fpc = "status" /\ rpc = "inflight" /\ reqHist.open = 1
    /\ reqHist.sawAbort /\ attemptsMade = 3
    /\ opts.logs /\ pollAttempt = 2 /\ pollHist.sleeps = 1

----------------------------------------------------------------------------
\* Properties of the inputs of the command, continued (SpecInputs)

\* C31 as stated: a positional argument is accepted as a package reference
\* exactly when it starts with '@' or is a bare identifier that contains no
\* path separator and does not end in a source-file extension; every other
\* argument is rejected with a usage error, exit 2.
ClaimedPackageRef(arg) ==
    /\ arg # <<>>
    /\ \/ arg[1] = "@"
       \/ /\ arg[1] # "."
          /\ \A i \in 1..Len(arg) : arg[i] \notin {"/", "\\"}
          /\ \A ext \in {<<".", "j", "s", "o", "n">>, <<".", "j", "s">>, <<".", "t", "s">>} :
               ~(Len(arg) >= Len(ext)
                 /\ SubSeq(arg, Len(arg) - Len(ext) + 1, Len(arg)) = ext)

ArgumentIsPackageRefOrRejected ==
    (vpc # "start" /\ opts.file # Absent) =>
        IF ClaimedPackageRef(opts.file)
        THEN /\ out.msg # "file_path"
             /\ vpc = "submit" => body.packageRef = opts.file
        ELSE vpc = "exited" /\ exitCode = 2

----------------------------------------------------------------------------
\* Properties of collectFiles (SpecFiles)

\* C32 as stated: for every include list, the list collectFiles produces
\* holds no dotfile, no file under a node_modules directory and no file
\* larger than 500 KB, and holds each relative path at most once.
ClaimedExcluded(p) ==
    \/ p[Len(p)][1] = "."
    \/ \E k \in 1..(Len(p) - 1) : p[k] = NodeModules
    \/ \E i \in 1..Len(FsFiles) : FsFiles[i].path = p /\ FsFiles[i].size > 500000

CollectedFilesAreFiltered ==
    /\ \A i \in 1..Len(walk.files) : ~ClaimedExcluded(walk.files[i])
    /\ \A i, j \in 1..Len(walk.files) : walk.files[i] = walk.files[j] => i = j

----------------------------------------------------------------------------
\* Properties of ApiClient.request, continued (SpecClient)

\* C33: whatever mix of 5xx, 429, transport failures and per-call timeouts the
\* attempts meet, one call issues at most maxRetries + 1 HTTP requests and
\* then returns or fails; every failed attempt, a 429 included, uses up one
\* attempt of the one budget, and a call that receives 429 on every attempt
\* ends after exactly maxRetries + 1 requests.
OneBudgetForEveryFailure ==
    /\ attemptsMade <= maxRetries + 1
    /\ rpc \in {"loop", "send"} => attemptsMade = attempt
    /\ rpc = "inflight" => attemptsMade = attempt + 1
    /\ (rpc = "loop" /\ attemptsMade = maxRetries + 1) => ~ENABLED ReqLoopEnter
    /\ (rpc = "returned" /\ attemptsMade > 0 /\ reqHist.only429) =>
          /\ attemptsMade = maxRetries + 1
          /\ reqResult = ApiRequestError(429)

OneBudgetForEveryFailureWitness ==
    /\ rpc = "returned" /\ reqHist.only429
    /\ maxRetries = 2 /\ attemptsMade = 3
    /\ reqResult = ApiRequestError(429)

\* C35: a 2xx response other than 204 whose body cannot be decoded is handled
\* like a transport failure: the call does not end on it, the next attempt
\* follows after the backoff delay of the attempt and counts against the same
\* budget, and a call whose every attempt ends this way fails with the
\* generic retries-exhausted error, not with an ApiRequestError.
UndecodableBodyIsRetried ==
    reqHist.last.class = "badjson" =>
        /\ rpc \in {"loop", "send"} => attemptsMade = attempt
        /\ rpc = "inflight" => /\ attemptsMade = attempt + 1
                               /\ attemptsMade <= maxRetries + 1
                               /\ reqHist.gap = ClaimedBackoff(attempt - 1)
        /\ rpc = "returned" => /\ attempt > maxRetries
                               /\ reqResult.kind # "value"
        /\ (rpc = "returned" /\ reqHist.onlyUndecodable) =>
              /\ attemptsMade = maxRetries + 1
              /\ reqResult = RetriesExhaustedError

UndecodableBodyIsRetriedWitness ==
    /\ rpc = "returned" /\ reqHist.onlyUndecodable
    /\ maxRetries = 2 /\ attemptsMade = 3
    /\ reqHist.gap = 2000
    /\ reqResult = RetriesExhaustedError

\* the submission request goes on the wire again
SubmissionResent ==
    /\ reqEndpoint = "runs"
    /\ httpCount["runs"] >= 1
    /\ httpCount'["runs"] > httpCount["runs"]

\* the number of submission requests of a call of client.post on the runs
\* endpoint lies between 1 and maxRetries + 1 once the first one is sent
SubmissionCount ==
    (reqEndpoint = "runs" /\ rpc \in {"inflight", "returned"}) =>
        /\ httpCount["runs"] >= 1
        /\ httpCount["runs"] <= maxRetries + 1

\* C34 as stated: the submission POST goes on the wire between 1 and
\* maxRetries + 1 times, and again only after an attempt that ended in a 5xx
\* response, a 429, a transport failure or a per-call timeout.
SubmissionResentOnlyAfterListedFailure ==
    /\ []SubmissionCount
    /\ [][SubmissionResent =>
            reqHist.last.class \in {"5xx", "429", "net", "abort"}]_vars

\* C34 amended: the submission POST goes on the wire between 1 and
\* maxRetries + 1 times, and again only after an attempt that ended in a 5xx
\* response, a 429, a transport failure, a per-call timeout or a 2xx response
\* whose body could not be decoded.
SubmissionResentOnlyAfterRetriedFailure ==
    /\ []SubmissionCount
    /\ [][SubmissionResent =>
            reqHist.last.class \in {"5xx", "429", "net", "abort", "badjson"}]_vars

SubmissionResentOnlyAfterRetriedFailureWitness ==
    /\ reqEndpoint = "runs" /\ rpc = "inflight"
    /\ httpCount["runs"] = maxRetries + 1 /\ maxRetries = 3
    /\ reqHist.last.class = "badjson"

----------------------------------------------------------------------------
\* Properties of the verify command, continued (Spec)

\* C36: within a tick the log fetch comes before the status fetch, and once a
\* terminal status has been received no log fetch is made, whatever the done
\* flag of the last batch was: no request goes to the logs endpoint, no line
\* is emitted and the cursor stays where the last log fetch left it, so the
\* lines after that cursor are never fetched or emitted.
NoLogFetchAfterTerminalStatus ==
    /\ [](vpc # "start" =>
            /\ (fpc = "status" /\ opts.logs) =>
                  logHist.calls = pollAttempt /\ logHist.last \in {"ok", "failed"}
            /\ TerminalReceived =>
                  \A i \in 1..Len(emitted) : emitted[i] <= logCursor)
    /\ [][TerminalReceived =>
            /\ opCount'["logs"] = opCount["logs"]
            /\ httpCount'["logs"] = httpCount["logs"]
            /\ emitted' = emitted
            /\ logCursor' = logCursor]_vars

NoLogFetchAfterTerminalStatusWitness ==
    /\ vpc = "exited" /\ TerminalReceived /\ opts.logs /\ ~opts.json
    /\ pollAttempt = 2 /\ logHist.calls = 2 /\ logHist.last = "ok"
    /\ Len(emitted) = 1 /\ logCursor = 1 /\ logCursor < MaxLog

----------------------------------------------------------------------------
\* Properties of poll, continued (SpecPoll)

\* a probe that was called before the deadline has returned a non-null done
\* value at or after the deadline, and poll has not yet acted on it
LateDoneProbe ==
    /\ ppc = "probing" /\ probePc = "returned"
    /\ pollHist.lastProbeAt < deadline
    /\ now >= deadline
    /\ probeResult.kind = "value"
    /\ probeResult.body \notin {BodyNull, BodyUndefined}
    /\ isDone(probeResult.body)

\* C37: a done result wins over the timeout: when a probe called before the
\* deadline returns a non-null done value after the deadline has passed, the
\* next step of poll returns that value, and a poll whose first done value
\* arrived at or after the deadline has returned it and not thrown
\* PollTimeoutError.
LateDoneResultIsReturned ==
    /\ [][LateDoneProbe =>
            /\ ppc' = "returned"
            /\ pollResult' = [kind |-> "value", body |-> probeResult.body]]_vars
    /\ []((ppc = "returned" /\ pollHist.firstDone.set
             /\ pollHist.firstDone.at >= deadline) =>
            pollResult = [kind |-> "value", body |-> pollHist.firstDone.what])

LateDoneResultIsReturnedWitness ==
    /\ ppc = "returned"
    /\ pollHist.firstDone.set /\ pollHist.firstDone.at > deadline
    /\ pollHist.lastProbeAt < deadline /\ pollAttempt = 2
    /\ pollResult = [kind |-> "value", body |-> StatusBody("success", "none")]

----------------------------------------------------------------------------
\* Termination of poll (SpecPollFair)

\* poll returned a done value, rethrew what its probe threw, or threw
\* PollTimeoutError once the deadline had passed
OneOfThreeOutcomes ==
    \/ /\ pollResult.kind = "value"
       /\ isDone(pollResult.body)
    \/ /\ pollResult.kind = "throw"
       /\ pollHist.firstThrow.set
       /\ pollResult.error = pollHist.firstThrow.what
    \/ /\ pollResult = PollTimeoutError(pollOpts.label, pollOpts.timeoutMs)
       /\ now >= deadline

\* poll rethrew what isDone threw on the value of the last probe
IsDoneErrorOutcome ==
    /\ pollResult.kind = "throw"
    /\ ~pollHist.firstThrow.set
    /\ probeResult = [kind |-> "value", body |-> BodyUndefined]

====
